---- MODULE Spec2Model ----
(***************************************************************************)
(* Order and cart controllers of the e-commerce backend (createOrder,      *)
(* cancelOrder, getOrder, getUserOrders, initiateCheckout, addToCart,      *)
(* getCart, updateCartItem, removeFromCart, clearCart) over the relational *)
(* store they reach through the ORM client, and the protect and admin      *)
(* middlewares with the category handlers mounted behind them.             *)
(*                                                                         *)
(* A store call may reject; the handler's catch then answers 500.  A       *)
(* findMany without orderBy gives its rows in any order.                   *)
(*                                                                         *)
(* Every request handler is a process whose steps are the handler's        *)
(* awaited store calls: what lies between two awaits is local computation  *)
(* and belongs to the step of the await before it.  A $transaction block   *)
(* commits as one step or rolls back as one step.                          *)
(*                                                                         *)
(* Amounts of money are JavaScript numbers in the handlers, so they are    *)
(* IEEE-754 doubles here; an amount with two decimal places (a catalogue   *)
(* price, the result of toFixed(2)) is written as its count of hundredths. *)
(***************************************************************************)
EXTENDS Integers, Sequences, FiniteSets, TLC

\* ---------------------------------------------------------------- bounds
\* Requests served in one behaviour, each by its own handler slot.
NReqs == 2
\* Ids of the order rows fulfilment may reach: the order placed before the
\* behaviour starts and one per request.
MaxOrders == 3

Users == {1, 2}
Products == {1, 2}
Reqs == 1..NReqs

\* Stock of each product before any order is placed.
InitStock(p) == IF p = 1 THEN 1 ELSE 3

\* Quantity of product p in the cart of user u at the start (0: no row).
InitQty(u, p) == IF u = 1 THEN (IF p = 1 THEN 1 ELSE 2) ELSE (IF p = 1 THEN 1 ELSE 0)

\* An address id that names no row of the address table.
MissingAddressId == 0

PaymentMethods == {"COD", "CARD"}

\* Catalogue prices in hundredths; SalePrice 0 is "no sale price" (null).
Price(p) == IF p = 1 THEN 50000 ELSE 60000
SalePrice(p) == IF p = 1 THEN 0 ELSE 45000

\* ------------------------------------------------- IEEE-754 double numbers
\* A natural number of any size is a sequence of limbs, least significant
\* first, each below LimbBase, without leading zero limbs (0 is <<>>).
LimbBits == 13
PowersOf2 == <<1, 2, 4, 8, 16, 32, 64, 128, 256, 512, 1024, 2048, 4096, 8192>>
\* 2^k for k up to LimbBits
Pow2(k) == PowersOf2[k + 1]
LimbBase == Pow2(LimbBits)

RECURSIVE BNorm(_)
BNorm(a) ==
  IF a = <<>> THEN a
  ELSE IF a[Len(a)] = 0 THEN BNorm(SubSeq(a, 1, Len(a) - 1)) ELSE a

RECURSIVE BFromInt(_)
BFromInt(n) == IF n = 0 THEN <<>> ELSE <<n % LimbBase>> \o BFromInt(n \div LimbBase)

RECURSIVE BToInt(_)
BToInt(a) == IF a = <<>> THEN 0 ELSE a[1] + LimbBase * BToInt(Tail(a))

Limb(a, i) == IF i <= Len(a) THEN a[i] ELSE 0

RECURSIVE BAddC(_, _, _, _)
\* Limbs i and up of a + b, with carry c into limb i.
BAddC(a, b, i, c) ==
  IF i > Len(a) /\ i > Len(b)
  THEN (IF c = 0 THEN <<>> ELSE <<c>>)
  ELSE <<(Limb(a, i) + Limb(b, i) + c) % LimbBase>>
         \o BAddC(a, b, i + 1, (Limb(a, i) + Limb(b, i) + c) \div LimbBase)
BAdd(a, b) == BAddC(a, b, 1, 0)

RECURSIVE BMulSmallC(_, _, _, _)
BMulSmallC(a, k, i, c) ==
  IF i > Len(a)
  THEN BFromInt(c)
  ELSE <<(a[i] * k + c) % LimbBase>> \o BMulSmallC(a, k, i + 1, (a[i] * k + c) \div LimbBase)
\* a * k for a small k (below 2^17)
BMulSmall(a, k) == IF k = 0 THEN <<>> ELSE BMulSmallC(a, k, 1, 0)

Zeros(n) == [i \in 1..n |-> 0]

RECURSIVE BMulAt(_, _, _)
BMulAt(a, b, i) ==
  IF i > Len(b) THEN <<>>
  ELSE BAdd(Zeros(i - 1) \o BMulSmall(a, b[i]), BMulAt(a, b, i + 1))
BMul(a, b) == BNorm(BMulAt(a, b, 1))

\* a * 2^k
BShl(a, k) ==
  IF a = <<>> THEN <<>>
  ELSE Zeros(k \div LimbBits) \o BMulSmall(a, Pow2(k % LimbBits))

RECURSIVE BDivSmallR(_, _, _, _)
\* Short division from the top limb down; r is the running remainder.
BDivSmallR(a, d, i, r) ==
  IF i = 0 THEN <<>>
  ELSE BDivSmallR(a, d, i - 1, (r * LimbBase + a[i]) % d) \o <<(r * LimbBase + a[i]) \div d>>
\* floor(a / d) for a small d (below 2^17)
BDivSmall(a, d) == BNorm(BDivSmallR(a, d, Len(a), 0))

RECURSIVE BModSmallR(_, _, _, _)
BModSmallR(a, d, i, r) ==
  IF i = 0 THEN r ELSE BModSmallR(a, d, i - 1, (r * LimbBase + a[i]) % d)
BModSmall(a, d) == BModSmallR(a, d, Len(a), 0)

\* floor(a / 2^k)
BShr(a, k) ==
  IF k \div LimbBits >= Len(a) THEN <<>>
  ELSE BDivSmall(SubSeq(a, k \div LimbBits + 1, Len(a)), Pow2(k % LimbBits))

\* Bit k (from 0) of a.
BBit(a, k) == (Limb(a, k \div LimbBits + 1) \div Pow2(k % LimbBits)) % 2

\* Whether a has a nonzero bit below bit k.
BLowNonZero(a, k) ==
  \/ \E i \in 1..(k \div LimbBits) : Limb(a, i) # 0
  \/ Limb(a, k \div LimbBits + 1) % Pow2(k % LimbBits) # 0

RECURSIVE IntBitLen(_)
IntBitLen(n) == IF n = 0 THEN 0 ELSE 1 + IntBitLen(n \div 2)
BBitLen(a) == IF a = <<>> THEN 0 ELSE LimbBits * (Len(a) - 1) + IntBitLen(a[Len(a)])

RECURSIVE IntTrailingZeros(_)
IntTrailingZeros(n) == IF n % 2 = 1 THEN 0 ELSE 1 + IntTrailingZeros(n \div 2)
RECURSIVE BTrailingZeros(_, _)
\* Zero bits below the lowest one bit of a nonzero a, from limb i up.
BTrailingZeros(a, i) ==
  IF a[i] = 0 THEN LimbBits + BTrailingZeros(a, i + 1) ELSE IntTrailingZeros(a[i])

RECURSIVE BCmpAt(_, _, _)
BCmpAt(a, b, i) ==
  IF i = 0 THEN 0
  ELSE IF a[i] > b[i] THEN 1
  ELSE IF a[i] < b[i] THEN -1
  ELSE BCmpAt(a, b, i - 1)
\* -1, 0, 1 as a < b, a = b, a > b
BCmp(a, b) ==
  IF Len(a) > Len(b) THEN 1
  ELSE IF Len(a) < Len(b) THEN -1
  ELSE BCmpAt(a, b, Len(a))

\* A non-negative double is [m, e] for the value m * 2^e, with m below 2^53
\* and odd (or zero with e = 0): one record per value.
MantBits == 53

FShifted(m, e, z) == [m |-> BShr(m, z), e |-> e + z]
FCanon(m, e) ==
  IF m = <<>> THEN [m |-> <<>>, e |-> 0] ELSE FShifted(m, e, BTrailingZeros(m, 1))

\* Of n cut to its bits from k up (q): whether rounding to nearest, ties to
\* even, adds one.
RoundsUp(n, k, q) ==
  /\ BBit(n, k - 1) = 1
  /\ (BLowNonZero(n, k - 1) \/ BBit(q, 0) = 1)
FRoundAt(n, e, k, q) == FCanon(IF RoundsUp(n, k, q) THEN BAdd(q, <<1>>) ELSE q, e + k)
FRoundLen(n, e, len) ==
  IF len <= MantBits THEN FCanon(n, e)
  ELSE FRoundAt(n, e, len - MantBits, BShr(n, len - MantBits))
\* n * 2^e rounded to the nearest double, ties to even.
FRound(n, e) == FRoundLen(n, e, BBitLen(n))

FFromInt(n) == FCanon(BFromInt(n), 0)

\* x * y and x + y as the hardware rounds them.
FMul(x, y) == FRound(BMul(x.m, y.m), x.e + y.e)
FAddAt(x, y, e) == FRound(BAdd(BShl(x.m, x.e - e), BShl(y.m, y.e - e)), e)
FAdd(x, y) == FAddAt(x, y, IF x.e < y.e THEN x.e ELSE y.e)

\* x >= n for an integer n
FGeqInt(x, n) ==
  IF x.e >= 0 THEN BCmp(BShl(x.m, x.e), BFromInt(n)) >= 0
  ELSE BCmp(x.m, BShl(BFromInt(n), 0 - x.e)) >= 0

\* parseFloat of a decimal with two places, given as c hundredths: the double
\* nearest to c / 100.  The quotient is taken with ParseGuardBits extra bits
\* and a sticky bit for the remainder, then rounded once.
ParseGuardBits == 64
ParseQuotient(n) ==
  FRound(BAdd(BShl(BDivSmall(n, 100), 1), IF BModSmall(n, 100) = 0 THEN <<>> ELSE <<1>>),
         0 - ParseGuardBits - 1)
ParseFloat(c) == ParseQuotient(BShl(BFromInt(c), ParseGuardBits))

\* x.toFixed(2), as hundredths: the integer n with n / 100 nearest to the
\* exact value of x, the larger n on a tie.  n100 is 100 times x.m.
ToFixed2At(n100, e) ==
  IF e >= 0 THEN BToInt(BShl(n100, e))
  ELSE BToInt(BShr(n100, 0 - e)) + BBit(n100, 0 - e - 1)
ToFixed2(x) == ToFixed2At(BMulSmall(x.m, 100), x.e)

VARIABLES
  stock,       \* Product.stock, by product id
  isActive,    \* Product.isActive, by product id
  prices,      \* Product.price and Product.salePrice, by product id
  cartItems,   \* CartItem rows
  addresses,   \* Address rows
  orders,      \* Order rows
  orderItems,  \* OrderItem rows
  categories,  \* Category rows, each with the number of its products
  pc,          \* position of each request handler
  req,         \* the request each handler serves
  loc,         \* the handler's local variables
  resp,        \* the response it sent
  muts         \* tables in which the request has committed a write

store == <<stock, isActive, prices, cartItems, addresses, orders, orderItems, categories>>
vars == <<stock, isActive, prices, cartItems, addresses, orders, orderItems, categories,
          pc, req, loc, resp, muts>>

\* ------------------------------------------------------------ responses
\* The data of a response is a sequence: <<>> for null, else <<payload>>.
NoResp == [code |-> 0, msg |-> "none", data |-> <<>>]
\* ApiResponse.error(res, msg, code) / ApiResponse.success(res, data, msg, code)
Error(m, c) == [code |-> c, msg |-> m, data |-> <<>>]
Success(d, m, c) == [code |-> c, msg |-> m, data |-> d]

\* req.user before protect attaches one.
NoUser == [id |-> 0, role |-> "NONE", isActive |-> <<>>]

\* A string is the sequence of its UTF-16 code units.
\* The category table at the start: "Tv", slug "tv", holds a product, and
\* "Pc", slug "pc", none.
InitCategories ==
  {[id |-> 1, name |-> <<84, 118>>, slug |-> <<116, 118>>, isActive |-> TRUE,
    products |-> 1],
   [id |-> 2, name |-> <<80, 99>>, slug |-> <<112, 99>>, isActive |-> TRUE,
    products |-> 0]}

\* req.user.id, req.headers, req.body, req.params and req.query of a request.
NoReq ==
  [op |-> "none", userId |-> 0, addressId |-> 0, paymentMethod |-> "none", id |-> 0,
   productId |-> 0, quantity |-> <<>>, page |-> <<>>, limit |-> <<>>,
   authorization |-> <<>>, name |-> <<>>, active |-> <<>>]
NoOrder == [id |-> 0, status |-> "NONE", items |-> {}]
NoCartItem == [id |-> 0, userId |-> 0, productId |-> 0, quantity |-> 0]
NoAmounts == [subtotal |-> 0, shippingCost |-> 0, tax |-> 0, total |-> 0]
NoLoc ==
  [cartItems |-> <<>>, validAddressId |-> 0, amounts |-> NoAmounts, orderNumber |-> <<>>,
   order |-> NoOrder, existingCartItem |-> NoCartItem, orders |-> <<>>,
   decoded |-> 0, user |-> NoUser]

\* -------------------------------------------------------------- helpers
RECURSIVE AnyOrder(_)
\* The results a findMany without orderBy may give for the rows S: the store
\* returns them in an order of its own choosing.
AnyOrder(S) ==
  IF S = {} THEN {<<>>}
  ELSE UNION {{<<r>> \o rest : rest \in AnyOrder(S \ {r})} : r \in S}

\* prisma.cartItem.findMany({where: {userId}, include: {product}}): the
\* results the call may give.
FindCart(u) ==
  {[i \in 1..Len(rows) |->
      [productId |-> rows[i].productId,
       quantity  |-> rows[i].quantity,
       product   |-> [price     |-> prices[rows[i].productId].price,
                      salePrice |-> prices[rows[i].productId].salePrice,
                      stock     |-> stock[rows[i].productId],
                      isActive  |-> isActive[rows[i].productId]]]] :
     rows \in AnyOrder({c \in cartItems : c.userId = u})}

\* item.product.salePrice || item.product.price
UnitPrice_ListOnly(product) == product.price
UnitPrice(product) == IF product.salePrice # 0 THEN product.salePrice ELSE product.price

RECURSIVE Validate_NoStock(_, _)
Validate_NoStock(items, i) ==
  IF i > Len(items) THEN "ok"
  ELSE IF ~items[i].product.isActive THEN "unavailable"
  ELSE Validate_NoStock(items, i + 1)

RECURSIVE Validate(_, _)
\* The loop over cartItems: the first line that fails decides the response.
Validate(items, i) ==
  IF i > Len(items) THEN "ok"
  ELSE IF ~items[i].product.isActive THEN "unavailable"
  ELSE IF items[i].product.stock < items[i].quantity THEN "insufficient"
  ELSE Validate(items, i + 1)

\* parseFloat(price) * item.quantity
LineTotal(item) == FMul(ParseFloat(UnitPrice(item.product)), FFromInt(item.quantity))

RECURSIVE Subtotal(_, _)
\* let subtotal = 0; subtotal += ... over the first n lines, in order.
Subtotal(items, n) ==
  IF n = 0 THEN FFromInt(0)
  ELSE FAdd(Subtotal(items, n - 1), LineTotal(items[n]))

\* subtotal >= 999 ? 0 : 50
ShippingCost(subtotal) == IF FGeqInt(subtotal, 999) THEN 0 ELSE 50
\* The literal 0.18 as a double.
TaxRate == ParseFloat(18)
\* subtotal * 0.18
Tax(subtotal) == FMul(subtotal, TaxRate)
\* subtotal + shippingCost + tax
Total(subtotal, shippingCost, tax) == FAdd(FAdd(subtotal, FFromInt(shippingCost)), tax)

\* The four amounts after toFixed(2), in hundredths.
Amounts(subtotal, shippingCost, tax) ==
  [subtotal     |-> ToFixed2(subtotal),
   shippingCost |-> ToFixed2(FFromInt(shippingCost)),
   tax          |-> ToFixed2(tax),
   total        |-> ToFixed2(Total(subtotal, shippingCost, tax))]
PricingOf(subtotal) == Amounts(subtotal, ShippingCost(subtotal), Tax(subtotal))
\* The amounts of a cart snapshot.
Pricing(items) == PricingOf(Subtotal(items, Len(items)))

RECURSIVE Digits(_)
\* The decimal digits of n, as template-literal interpolation writes them.
Digits(n) == IF n < 10 THEN <<n>> ELSE Digits(n \div 10) \o <<n % 10>>

\* `ORD${Date.now()}${Math.floor(Math.random() * 1000)}`: the digits after
\* "ORD".  A timestamp t stands for the milliseconds past some instant; the
\* digits all timestamps of a behaviour share are left out.
OrderNumber(t, rnd) == Digits(t) \o Digits(rnd)

\* paymentMethod === 'COD' ? 'CONFIRMED' : 'PENDING'
InitialStatus_Pending(pm) == "PENDING"
InitialStatus(pm) == IF pm = "COD" THEN "CONFIRMED" ELSE "PENDING"

RECURSIVE QtyOf(_, _, _)
\* Sum of the quantities of the lines of product p.
QtyOf(items, p, i) ==
  IF i > Len(items) THEN 0
  ELSE (IF items[i].productId = p THEN items[i].quantity ELSE 0) + QtyOf(items, p, i + 1)

RECURSIVE SumQty(_, _)
SumQty(S, p) ==
  IF S = {} THEN 0
  ELSE LET it == CHOOSE x \in S : TRUE
       IN (IF it.productId = p THEN it.quantity ELSE 0) + SumQty(S \ {it}, p)

\* cartItems.length === 0
CartIsEmpty_Negative(items) == Len(items) < 0
CartIsEmpty(items) == Len(items) = 0

\* The loop of product.update({data: {stock: {decrement: item.quantity}}})
DecrementStock_One(items) ==
  [p \in DOMAIN stock |->
     stock[p] - Cardinality({i \in 1..Len(items) : items[i].productId = p})]
DecrementStock(items) == [p \in DOMAIN stock |-> stock[p] - QtyOf(items, p, 1)]

\* cartItem.deleteMany({where: {userId}})
ClearCart(u) == {c \in cartItems : c.userId # u}

\* ['PENDING', 'CONFIRMED'].includes(order.status)
Cancellable_NotDelivered(status) == status # "DELIVERED"
Cancellable_NotCancelled(status) == status # "CANCELLED"
Cancellable(status) == status \in {"PENDING", "CONFIRMED"}

\* The loop of product.update({data: {stock: {increment: item.quantity}}})
RestoreStock(items) == [p \in DOMAIN stock |-> stock[p] + SumQty(items, p)]

ItemsOf(oid) == {it \in orderItems : it.orderId = oid}

\* The rows order.findFirst({where: {id, userId}}) chooses from.
FindOrder_AnyUser(id, u) == {o \in orders : o.id = id}
FindOrder(id, u) == {o \in orders : o.id = id /\ o.userId = u}

\* ----------------------------------------------------------------- Init
InitAddresses == {[id |-> u, userId |-> u] : u \in Users}

InitCart ==
  {[id |-> (x[1] - 1) * Cardinality(Products) + x[2], userId |-> x[1],
    productId |-> x[2], quantity |-> InitQty(x[1], x[2])] :
     x \in {y \in Users \X Products : InitQty(y[1], y[2]) > 0}}

InitPrices == [p \in Products |-> [price |-> Price(p), salePrice |-> SalePrice(p)]]

\* An order placed before the behaviour starts: user 2 bought one unit of
\* product 2, cash on delivery, to the address of user 2.
InitOrders ==
  {[id |-> 1, userId |-> 2, addressId |-> 2, orderNumber |-> OrderNumber(0, 0),
    paymentMethod |-> "COD",
    subtotal |-> 45000, shippingCost |-> 5000, tax |-> 8100, total |-> 58100,
    status |-> "CONFIRMED", paymentStatus |-> "PENDING", createdAt |-> 1]}

InitOrderItems ==
  {[orderId |-> 1, line |-> 1, productId |-> 2, quantity |-> 1,
    price |-> 45000, total |-> FMul(ParseFloat(45000), FFromInt(1))]}

Init ==
  /\ stock = [p \in Products |-> InitStock(p) - SumQty(InitOrderItems, p)]
  /\ isActive \in [Products -> BOOLEAN]
  /\ prices = InitPrices
  /\ cartItems = InitCart
  /\ addresses = InitAddresses
  /\ categories = InitCategories
  /\ orders = InitOrders
  /\ orderItems = InitOrderItems
  /\ pc = [r \in Reqs |-> "idle"]
  /\ req = [r \in Reqs |-> NoReq]
  /\ loc = [r \in Reqs |-> NoLoc]
  /\ resp = [r \in Reqs |-> NoResp]
  /\ muts = [r \in Reqs |-> {}]

\* Requests take the handler slots in order: slot r serves the r-th request.
Free(r) == pc[r] = "idle" /\ \A q \in 1..(r - 1) : pc[q] # "idle"

\* ---------------------------------------------------------- createOrder
\* The request arrives and createOrderSchema.validate(req.body) rejects it.
CreateOrderInvalid(r) ==
  /\ Free(r)
  /\ req' = [req EXCEPT ![r] = [NoReq EXCEPT !.op = "createOrder"]]
  /\ pc' = [pc EXCEPT ![r] = "done"]
  /\ resp' = [resp EXCEPT ![r] = Error("validation", 400)]
  /\ UNCHANGED <<store, loc, muts>>

\* The catch of createOrder: a store call of the try block has thrown, the
\* handler's locals are as the call found them and the answer is 500.
CreateOrderCaught(r) ==
  /\ pc' = [pc EXCEPT ![r] = "done"]
  /\ resp' = [resp EXCEPT ![r] = Error("Failed to create order", 500)]
  /\ loc' = loc

\* The request arrives with a body the schema accepts; cartItem.findMany and
\* the empty-cart check; when the store call rejects, the catch answers 500.
CreateOrderCart(r, u, a, pm) ==
  /\ Free(r)
  /\ req' = [req EXCEPT ![r] = [NoReq EXCEPT !.op = "createOrder", !.userId = u,
                                             !.addressId = a, !.paymentMethod = pm]]
  /\ \/ \E items \in FindCart(u) :
          /\ loc' = [loc EXCEPT ![r].cartItems = items, ![r].validAddressId = a]
          /\ IF CartIsEmpty(items)
             THEN /\ pc' = [pc EXCEPT ![r] = "done"]
                  /\ resp' = [resp EXCEPT ![r] = Error("Cart is empty", 400)]
             ELSE /\ pc' = [pc EXCEPT ![r] = "co_addr"]
                  /\ resp' = resp
     \/ CreateOrderCaught(r)
  /\ UNCHANGED <<store, muts>>

\* The totals loop, which runs once the address id is settled: it answers
\* 400 on the first bad line; else the amounts are computed, the order number
\* is made from the clock reading t and the random draw rnd, and the handler
\* enters the transaction.
\* l is the handler's locals as the step before the loop leaves them.
AfterAddress(r, l, t, rnd) ==
  LET v == Validate(l.cartItems, 1)
  IN IF v = "unavailable"
     THEN /\ pc' = [pc EXCEPT ![r] = "done"]
          /\ resp' = [resp EXCEPT ![r] = Error("no longer available", 400)]
          /\ loc' = [loc EXCEPT ![r] = l]
     ELSE IF v = "insufficient"
     THEN /\ pc' = [pc EXCEPT ![r] = "done"]
          /\ resp' = [resp EXCEPT ![r] = Error("Insufficient stock", 400)]
          /\ loc' = [loc EXCEPT ![r] = l]
     ELSE /\ pc' = [pc EXCEPT ![r] = "co_tx"]
          /\ resp' = resp
          /\ loc' = [loc EXCEPT ![r] = [l EXCEPT !.amounts = Pricing(l.cartItems),
                                                   !.orderNumber = OrderNumber(t, rnd)]]

\* address.findUnique({where: {id: addressId}}); when the store call
\* rejects, the catch answers 500.
CreateOrderAddress(r, t, rnd) ==
  /\ pc[r] = "co_addr"
  /\ \/ IF \E a \in addresses : a.id = req[r].addressId
        THEN AfterAddress(r, loc[r], t, rnd)
        ELSE /\ pc' = [pc EXCEPT ![r] = "co_addrCreate"]
             /\ resp' = resp
             /\ loc' = loc
     \/ CreateOrderCaught(r)
  /\ UNCHANGED <<store, req, muts>>

\* address.create of the placeholder address, outside any transaction; when
\* the store call rejects, no row is written and the catch answers 500.
CreateOrderPlaceholder(r, t, rnd) ==
  /\ pc[r] = "co_addrCreate"
  /\ \/ LET newId == Cardinality(addresses) + 1
        IN /\ addresses' = addresses \cup {[id |-> newId, userId |-> req[r].userId]}
           /\ AfterAddress(r, [loc[r] EXCEPT !.validAddressId = newId], t, rnd)
           /\ muts' = [muts EXCEPT ![r] = @ \cup {"address"}]
     \/ /\ CreateOrderCaught(r)
        /\ UNCHANGED <<addresses, muts>>
  /\ UNCHANGED <<categories, stock, isActive, prices, cartItems, orders, orderItems, req>>

\* The $transaction block when it commits.
CreateOrderCommit(r) ==
  /\ pc[r] = "co_tx"
  /\ LET items == loc[r].cartItems
         oid == Cardinality(orders) + 1
         amounts == loc[r].amounts
         pm == req[r].paymentMethod
         newOrder ==
           [id |-> oid, userId |-> req[r].userId, addressId |-> loc[r].validAddressId,
            orderNumber |-> loc[r].orderNumber,
            paymentMethod |-> pm,
            subtotal |-> amounts.subtotal, shippingCost |-> amounts.shippingCost,
            tax |-> amounts.tax, total |-> amounts.total,
            status |-> InitialStatus(pm),
            paymentStatus |-> "PENDING", createdAt |-> oid]
     IN /\ orders' = orders \cup {newOrder}
        /\ orderItems' = orderItems \cup
             {[orderId |-> oid, line |-> i, productId |-> items[i].productId,
               quantity |-> items[i].quantity,
               price |-> UnitPrice(items[i].product),
               total |-> LineTotal(items[i])] :
                i \in 1..Len(items)}
        /\ stock' = DecrementStock(items)
        /\ cartItems' = ClearCart(req[r].userId)
        /\ req' = [req EXCEPT ![r].id = oid]
        /\ resp' = [resp EXCEPT ![r] = Success(<<newOrder>>, "Order created successfully", 201)]
  /\ muts' = [muts EXCEPT ![r] = @ \cup {"order", "orderItem", "stock", "cart"}]
  /\ pc' = [pc EXCEPT ![r] = "done"]
  /\ UNCHANGED <<categories, isActive, prices, addresses, loc>>

\* The $transaction block when a statement after order.create throws and
\* the order row stays.
CreateOrderRollback_Partial(r) ==
  /\ pc[r] = "co_tx"
  /\ orders' = orders \cup
       {[id |-> Cardinality(orders) + 1, userId |-> req[r].userId,
         addressId |-> loc[r].validAddressId, orderNumber |-> loc[r].orderNumber,
         paymentMethod |-> req[r].paymentMethod,
         subtotal |-> loc[r].amounts.subtotal,
         shippingCost |-> loc[r].amounts.shippingCost,
         tax |-> loc[r].amounts.tax, total |-> loc[r].amounts.total,
         status |-> InitialStatus(req[r].paymentMethod),
         paymentStatus |-> "PENDING", createdAt |-> Cardinality(orders) + 1]}
  /\ pc' = [pc EXCEPT ![r] = "done"]
  /\ resp' = [resp EXCEPT ![r] = Error("Failed to create order", 500)]
  /\ UNCHANGED <<categories, stock, isActive, prices, cartItems, addresses, orderItems,
                 req, loc, muts>>

\* The $transaction block when a statement in it throws: the store rolls it
\* back and the catch answers 500.
CreateOrderRollback(r) ==
  /\ pc[r] = "co_tx"
  /\ CreateOrderCaught(r)
  /\ UNCHANGED <<store, req, muts>>

\* ---------------------------------------------------------- cancelOrder
\* The request arrives; order.findFirst({where: {id, userId}, include: {items}})
\* and the two checks; when the store call rejects, the catch answers 500.
CancelOrderFind(r, u, id) ==
  /\ Free(r)
  /\ req' = [req EXCEPT ![r] = [NoReq EXCEPT !.op = "cancelOrder", !.userId = u, !.id = id]]
  /\ \/ LET found == FindOrder(id, u)
        IN IF found = {}
           THEN /\ pc' = [pc EXCEPT ![r] = "done"]
                /\ resp' = [resp EXCEPT ![r] = Error("Order not found", 404)]
                /\ loc' = loc
           ELSE LET o == CHOOSE x \in found : TRUE
                IN /\ loc' = [loc EXCEPT ![r].order =
                                [id |-> o.id, status |-> o.status, items |-> ItemsOf(o.id)]]
                   /\ IF ~Cancellable(o.status)
                      THEN /\ pc' = [pc EXCEPT ![r] = "done"]
                           /\ resp' = [resp EXCEPT ![r] =
                                         Error("Order cannot be cancelled", 400)]
                      ELSE /\ pc' = [pc EXCEPT ![r] = "cx_tx"]
                           /\ resp' = resp
     \/ /\ pc' = [pc EXCEPT ![r] = "done"]
        /\ resp' = [resp EXCEPT ![r] = Error("Failed to cancel order", 500)]
        /\ loc' = loc
  /\ UNCHANGED <<store, muts>>

\* The $transaction block when it commits: status update, stock increments.
CancelOrderCommit(r) ==
  /\ pc[r] = "cx_tx"
  /\ orders' = {IF o.id = req[r].id THEN [o EXCEPT !.status = "CANCELLED"] ELSE o : o \in orders}
  /\ stock' = RestoreStock(loc[r].order.items)
  /\ muts' = [muts EXCEPT ![r] = @ \cup {"order", "stock"}]
  /\ pc' = [pc EXCEPT ![r] = "done"]
  /\ resp' = [resp EXCEPT ![r] = Success(<<>>, "Order cancelled successfully", 200)]
  /\ UNCHANGED <<categories, isActive, prices, cartItems, addresses, orderItems, req, loc>>

CancelOrderRollback(r) ==
  /\ pc[r] = "cx_tx"
  /\ pc' = [pc EXCEPT ![r] = "done"]
  /\ resp' = [resp EXCEPT ![r] = Error("Failed to cancel order", 500)]
  /\ UNCHANGED <<store, req, loc, muts>>

\* ------------------------------------------------------------ fulfilment
\* Fulfilment moves an order along PENDING -> CONFIRMED -> SHIPPED -> DELIVERED.
NextStatus(s) ==
  IF s = "PENDING" THEN "CONFIRMED"
  ELSE IF s = "CONFIRMED" THEN "SHIPPED"
  ELSE "DELIVERED"

AdvanceOrder(id) ==
  /\ \E o \in orders :
       /\ o.id = id
       /\ o.status \in {"PENDING", "CONFIRMED", "SHIPPED"}
       /\ orders' = (orders \ {o}) \cup {[o EXCEPT !.status = NextStatus(o.status)]}
  /\ UNCHANGED <<categories, stock, isActive, prices, cartItems, addresses, orderItems,
                 pc, req, loc, resp, muts>>

\* ----------------------------------------------------- initiateCheckout
\* The request arrives and checkoutSchema.validate(req.body) rejects it.
InitiateCheckoutInvalid(r) ==
  /\ Free(r)
  /\ req' = [req EXCEPT ![r] = [NoReq EXCEPT !.op = "initiateCheckout"]]
  /\ pc' = [pc EXCEPT ![r] = "done"]
  /\ resp' = [resp EXCEPT ![r] = Error("validation", 400)]
  /\ UNCHANGED <<store, loc, muts>>

\* checkoutData: the snapshot with its amounts as toFixed(2) writes them.
CheckoutData(items, amounts, pm) ==
  [items |-> items, subtotal |-> amounts.subtotal, shippingCost |-> amounts.shippingCost,
   tax |-> amounts.tax, total |-> amounts.total, paymentMethod |-> pm]

\* The response to initiateCheckout for the cart snapshot it read.
CheckoutResponse(items, pm) ==
  IF CartIsEmpty(items)
  THEN Error("Cart is empty", 400)
  ELSE Success(<<CheckoutData(items, Pricing(items), pm)>>,
               "Checkout initiated successfully", 200)

\* The request arrives with a body the schema accepts; cartItem.findMany, the
\* empty-cart check, the totals and the response; when the store call
\* rejects, the catch answers 500.
InitiateCheckout(r, u, pm) ==
  /\ Free(r)
  /\ req' = [req EXCEPT ![r] = [NoReq EXCEPT !.op = "initiateCheckout", !.userId = u,
                                             !.paymentMethod = pm]]
  /\ \/ \E items \in FindCart(u) :
          /\ loc' = [loc EXCEPT ![r].cartItems = items]
          /\ resp' = [resp EXCEPT ![r] = CheckoutResponse(items, pm)]
     \/ /\ loc' = loc
        /\ resp' = [resp EXCEPT ![r] = Error("Failed to initiate checkout", 500)]
  /\ pc' = [pc EXCEPT ![r] = "done"]
  /\ UNCHANGED <<store, muts>>

\* ---------------------------------------------------------------- pricing
\* Carts priced over a catalogue whose prices are drawn at the start:
\* createOrder to an own address and initiateCheckout.  The catalogue has a
\* third product, priced 64.90, of which the cart of user 1 may hold a line
\* of three units.
PricedProducts == Products \cup {3}

InitPricing ==
  /\ stock = [p \in PricedProducts |-> InitStock(p) - SumQty(InitOrderItems, p)]
  /\ isActive = [p \in PricedProducts |-> TRUE]
  /\ \E list \in {9925, 50000, 100000}, second \in {6490, 9925}, sale \in {0, 45000} :
       prices = <<[price |-> list, salePrice |-> 0], [price |-> second, salePrice |-> sale],
                  [price |-> 6490, salePrice |-> 0]>>
  /\ cartItems \in {InitCart,
                     InitCart \cup {[id |-> 4, userId |-> 1, productId |-> 3, quantity |-> 3]}}
  /\ addresses = InitAddresses
  /\ categories = InitCategories
  /\ orders = InitOrders
  /\ orderItems = InitOrderItems
  /\ pc = [r \in Reqs |-> "idle"]
  /\ req = [r \in Reqs |-> NoReq]
  /\ loc = [r \in Reqs |-> NoLoc]
  /\ resp = [r \in Reqs |-> NoResp]
  /\ muts = [r \in Reqs |-> {}]

NextPricing ==
  \/ \E r \in Reqs : InitiateCheckoutInvalid(r)
  \/ \E r \in Reqs, u \in Users, pm \in PaymentMethods : InitiateCheckout(r, u, pm)
  \/ \E r \in Reqs, u \in Users, pm \in PaymentMethods : CreateOrderCart(r, u, u, pm)
  \/ \E r \in Reqs : CreateOrderAddress(r, r, 0)
  \/ \E r \in Reqs : CreateOrderCommit(r)
  \/ \E r \in Reqs : CreateOrderRollback(r)

SpecPricing == InitPricing /\ [][NextPricing]_vars

\* ---------------------------------------------------------- order numbers
\* createOrder requests whose clock readings and random draws may coincide.
ClockReadings == {1, 2}
RandomDraws == {0, 999}

NextNumbers ==
  \/ \E r \in Reqs, u \in Users, pm \in PaymentMethods : CreateOrderCart(r, u, u, pm)
  \/ \E r \in Reqs, t \in ClockReadings, rnd \in RandomDraws : CreateOrderAddress(r, t, rnd)
  \/ \E r \in Reqs : CreateOrderCommit(r)
  \/ \E r \in Reqs : CreateOrderRollback(r)

SpecNumbers == Init /\ [][NextNumbers]_vars

\* -------------------------------------------------------------- catalogue
\* The catalogue changes the price and the sale price of a product.
SetPrice(p, row) ==
  /\ prices[p] # row
  /\ prices' = [prices EXCEPT ![p] = row]
  /\ UNCHANGED <<categories, stock, isActive, cartItems, addresses, orders, orderItems,
                 pc, req, loc, resp, muts>>

NextCatalogue ==
  \/ \E r \in Reqs, u \in Users, pm \in PaymentMethods : CreateOrderCart(r, u, u, pm)
  \/ \E r \in Reqs : CreateOrderAddress(r, r, 0)
  \/ \E r \in Reqs : CreateOrderCommit(r)
  \/ \E r \in Reqs : CreateOrderRollback(r)
  \/ \E r \in Reqs, u \in Users, id \in 1..(Cardinality(orders) + 1) : CancelOrderFind(r, u, id)
  \/ \E r \in Reqs : CancelOrderCommit(r)
  \/ \E r \in Reqs : CancelOrderRollback(r)
  \/ \E id \in 1..MaxOrders : AdvanceOrder(id)
  \/ \E p \in Products, row \in {[price |-> 55000, salePrice |-> 0]} : SetPrice(p, row)

InitCatalogue == Init /\ \A p \in Products : isActive[p]

SpecCatalogue == InitCatalogue /\ [][NextCatalogue]_vars

\* ------------------------------------------------------------- getOrder
\* include: {items: {include: {product: {select: {price, salePrice, ...}}}}}
ItemsWithProduct(oid) ==
  {[item |-> it, product |-> prices[it.productId]] : it \in ItemsOf(oid)}

\* An order row with its items, as the retrieval handlers return it.
OrderWithItems(o) == [order |-> o, items |-> ItemsWithProduct(o.id)]

\* The request arrives; order.findFirst({where: {id, userId}, include}) and
\* the response, with the mock address put on a found order; when the store
\* call rejects, the catch answers 500.
GetOrder(r, u, id) ==
  /\ Free(r)
  /\ req' = [req EXCEPT ![r] = [NoReq EXCEPT !.op = "getOrder", !.userId = u, !.id = id]]
  /\ \/ resp' = [resp EXCEPT ![r] =
            IF FindOrder(id, u) = {}
            THEN Error("Order not found", 404)
            ELSE Success(<<[order   |-> CHOOSE o \in FindOrder(id, u) : TRUE,
                            items   |-> ItemsWithProduct(id),
                            address |-> "John Doe"]>>,
                         "Order retrieved successfully", 200)]
     \/ resp' = [resp EXCEPT ![r] = Error("Failed to retrieve order", 500)]
  /\ pc' = [pc EXCEPT ![r] = "done"]
  /\ UNCHANGED <<store, loc, muts>>

\* -------------------------------------------------------- getUserOrders
\* A query-string value is the sequence of its code units; <<>> when it is
\* absent, which parseInt reads as it reads the empty string.
\* StrWhiteSpaceChar, which parseInt skips at the start: the white space
\* (tab, VT, FF, the space separators, U+FEFF) and the line terminators.
WhiteSpace ==
  {9, 10, 11, 12, 13, 32, 160, 5760, 8232, 8233, 8239, 8287, 12288, 65279} \cup 8192..8202
\* The value of the code unit ch as a digit: "0".."9", then "a".."f" and
\* "A".."F"; 16 when it is none.
DigitValue(ch) ==
  IF ch \in 48..57 THEN ch - 48
  ELSE IF ch \in 97..102 THEN ch - 87
  ELSE IF ch \in 65..70 THEN ch - 55
  ELSE 16
\* ch is a digit of the radix.
IsDigit(ch, radix) == DigitValue(ch) < radix

RECURSIVE ParseDigits(_, _, _, _)
\* The value of the digits of s from position i on, up to the first
\* character that is no digit of the radix, after the value acc of the
\* digits before.
ParseDigits(s, i, acc, radix) ==
  IF i <= Len(s) /\ IsDigit(s[i], radix)
  THEN ParseDigits(s, i + 1, acc * radix + DigitValue(s[i]), radix)
  ELSE acc

\* parseInt(s) without a radix: leading white space is skipped, a sign is
\* read, and "0x" or "0X" makes the digits hexadecimal; NaN unless a digit
\* follows, else the signed value of the digits up to the first character
\* that is none.  An absent value reads as "undefined", so it is NaN.
ParseInt(s) ==
  LET blanks == Cardinality({k \in 1..Len(s) : \A j \in 1..k : s[j] \in WhiteSpace})
      signed == blanks < Len(s) /\ s[blanks + 1] \in {43, 45}
      first == IF signed THEN blanks + 2 ELSE blanks + 1
      hex == first < Len(s) /\ s[first] = 48 /\ s[first + 1] \in {120, 88}
      radix == IF hex THEN 16 ELSE 10
      start == IF hex THEN first + 2 ELSE first
  IN IF start > Len(s) \/ ~IsDigit(s[start], radix) THEN [nan |-> TRUE, val |-> 0]
     ELSE [nan |-> FALSE,
           val |-> (IF signed /\ s[blanks + 1] = 45 THEN -1 ELSE 1)
                   * ParseDigits(s, start, 0, radix)]

\* x || d: d when x is NaN or 0
OrDefault(x, d) == IF x.nan \/ x.val = 0 THEN d ELSE x.val

\* parseInt(req.query.page) || 1 and parseInt(req.query.limit) || 10
PageOf(s) == OrDefault(ParseInt(s), 1)
LimitOf(s) == OrDefault(ParseInt(s), 10)

\* (page - 1) * limit
SkipOf_Page(page, limit) == page * limit
SkipOf(page, limit) == (page - 1) * limit

RECURSIVE SortNewestFirst(_)
\* orderBy: {createdAt: 'desc'}
SortNewestFirst(S) ==
  IF S = {} THEN <<>>
  ELSE LET r == CHOOSE x \in S : \A y \in S : x.createdAt >= y.createdAt
       IN <<r>> \o SortNewestFirst(S \ {r})

\* The rows after the first skip, at most take of them; a negative take
\* counts from the end of the list: the rows before the last skip, at most
\* -take of them.
SkipTake(rows, skip, take) ==
  IF take >= 0
  THEN SubSeq(rows, skip + 1, IF skip + take < Len(rows) THEN skip + take ELSE Len(rows))
  ELSE SubSeq(rows, IF Len(rows) - skip + take < 0 THEN 1 ELSE Len(rows) - skip + take + 1,
              Len(rows) - skip)

\* order.findMany({where: {userId}, include, orderBy, skip, take})
FindOrders(u, skip, take) ==
  LET rows == SkipTake(SortNewestFirst({o \in orders : o.userId = u}), skip, take)
  IN [i \in 1..Len(rows) |-> OrderWithItems(rows[i])]

\* Math.ceil(a / b) for a >= 0 and b # 0
CeilDiv(a, b) == IF b > 0 THEN (a + b - 1) \div b ELSE 0 - (a \div (0 - b))

\* The request arrives; order.findMany.  The store rejects a negative skip,
\* and any call of it may reject: the catch answers 500.
GetUserOrdersFind(r, u, page, limit) ==
  /\ Free(r)
  /\ req' = [req EXCEPT ![r] = [NoReq EXCEPT !.op = "getUserOrders", !.userId = u,
                                             !.page = page, !.limit = limit]]
  /\ \/ /\ SkipOf(PageOf(page), LimitOf(limit)) >= 0
        /\ loc' = [loc EXCEPT ![r].orders =
                     FindOrders(u, SkipOf(PageOf(page), LimitOf(limit)), LimitOf(limit))]
        /\ pc' = [pc EXCEPT ![r] = "gu_count"]
        /\ resp' = resp
     \/ /\ loc' = loc
        /\ pc' = [pc EXCEPT ![r] = "done"]
        /\ resp' = [resp EXCEPT ![r] = Error("Failed to retrieve orders", 500)]
  /\ UNCHANGED <<store, muts>>

\* order.count({where: {userId}}) and the response; when the store call
\* rejects, the catch answers 500.
GetUserOrdersCount(r) ==
  /\ pc[r] = "gu_count"
  /\ \/ resp' = [resp EXCEPT ![r] =
            Success(<<[orders |-> loc[r].orders,
                       pagination |->
                         [page  |-> PageOf(req[r].page),
                          limit |-> LimitOf(req[r].limit),
                          total |-> Cardinality({o \in orders : o.userId = req[r].userId}),
                          pages |-> CeilDiv(Cardinality({o \in orders :
                                                          o.userId = req[r].userId}),
                                            LimitOf(req[r].limit))]]>>,
                    "Orders retrieved successfully", 200)]
     \/ resp' = [resp EXCEPT ![r] = Error("Failed to retrieve orders", 500)]
  /\ pc' = [pc EXCEPT ![r] = "done"]
  /\ UNCHANGED <<store, req, loc, muts>>

\* -------------------------------------------------------------- retrieval
\* Users retrieving and cancelling orders placed before the behaviour starts.
MaxInitOrders == 3
\* page: absent, "0x", "0", "2", "2x", "0X2", "-1"
PageInputs ==
  {<<>>, <<48, 120>>, <<48>>, <<50>>, <<50, 120>>, <<48, 88, 50>>, <<45, 49>>}
\* limit: absent, "0", "\r1", "2", "-1"
LimitInputs == {<<>>, <<48>>, <<13, 49>>, <<50>>, <<45, 49>>}

\* The i-th order placed, by user u: one unit of product 2, cash on delivery.
PlacedOrder(i, u) ==
  [id |-> i, userId |-> u, addressId |-> u, orderNumber |-> OrderNumber(0, i),
   paymentMethod |-> "COD",
   subtotal |-> 45000, shippingCost |-> 5000, tax |-> 8100, total |-> 58100,
   status |-> "CONFIRMED", paymentStatus |-> "PENDING", createdAt |-> i]

PlacedOrderItem(i) ==
  [orderId |-> i, line |-> 1, productId |-> 2, quantity |-> 1,
   price |-> 45000, total |-> FMul(ParseFloat(45000), FFromInt(1))]

InitRetrieval ==
  /\ stock = [p \in Products |-> InitStock(p)]
  /\ isActive = [p \in Products |-> TRUE]
  /\ prices = InitPrices
  /\ cartItems = InitCart
  /\ addresses = InitAddresses
  /\ categories = InitCategories
  /\ \E n \in 0..MaxInitOrders : \E owner \in [1..n -> Users] :
       /\ orders = {PlacedOrder(i, owner[i]) : i \in 1..n}
       /\ orderItems = {PlacedOrderItem(i) : i \in 1..n}
  /\ pc = [r \in Reqs |-> "idle"]
  /\ req = [r \in Reqs |-> NoReq]
  /\ loc = [r \in Reqs |-> NoLoc]
  /\ resp = [r \in Reqs |-> NoResp]
  /\ muts = [r \in Reqs |-> {}]

NextRetrieval ==
  \/ \E r \in Reqs, u \in Users, id \in 1..(Cardinality(orders) + 1) : GetOrder(r, u, id)
  \/ \E r \in Reqs, u \in Users, page \in PageInputs, limit \in LimitInputs :
        GetUserOrdersFind(r, u, page, limit)
  \/ \E r \in Reqs : GetUserOrdersCount(r)
  \/ \E r \in Reqs, u \in Users, id \in 1..(Cardinality(orders) + 1) : CancelOrderFind(r, u, id)
  \/ \E r \in Reqs : CancelOrderCommit(r)
  \/ \E r \in Reqs : CancelOrderRollback(r)

SpecRetrieval == InitRetrieval /\ [][NextRetrieval]_vars

\* -------------------------------------------------------------- getCart
\* The request arrives; cartItem.findMany, the two reduces over the rows in
\* the order read, and the response, its amounts not rounded; when the
\* store call rejects, the catch answers 500.
GetCart(r, u) ==
  /\ Free(r)
  /\ req' = [req EXCEPT ![r] = [NoReq EXCEPT !.op = "getCart", !.userId = u]]
  /\ \/ \E items \in FindCart(u) :
          LET totalItems[i \in 0..Len(items)] ==
                IF i = 0 THEN 0 ELSE totalItems[i - 1] + items[i].quantity
              totalAmount == Subtotal(items, Len(items))
          IN resp' = [resp EXCEPT ![r] =
                        Success(<<[items |-> items, totalItems |-> totalItems[Len(items)],
                                   totalAmount |-> totalAmount, subtotal |-> totalAmount,
                                   tax |-> Tax(totalAmount),
                                   shipping |-> ShippingCost(totalAmount)]>>,
                                "Cart retrieved successfully", 200)]
     \/ resp' = [resp EXCEPT ![r] = Error("Failed to retrieve cart", 500)]
  /\ pc' = [pc EXCEPT ![r] = "done"]
  /\ UNCHANGED <<store, loc, muts>>

\* ------------------------------------------------------------ addToCart
\* A quantity of a request body is <<>> when absent, else <<q>>.
\* const { productId, quantity = 1 } = req.body
QuantityOrOne(q) == IF q = <<>> THEN 1 ELSE q[1]

\* A product id that names no row of the product table.
MissingProductId == 0

\* The request arrives; product.findUnique and the three checks; when the
\* store call rejects, the catch answers 500.
AddToCartProduct(r, u, p, q) ==
  /\ Free(r)
  /\ req' = [req EXCEPT ![r] = [NoReq EXCEPT !.op = "addToCart", !.userId = u,
                                             !.productId = p, !.quantity = q]]
  /\ \/ IF p \notin DOMAIN stock
        THEN /\ pc' = [pc EXCEPT ![r] = "done"]
             /\ resp' = [resp EXCEPT ![r] = Error("Product not found", 404)]
        ELSE IF ~isActive[p]
        THEN /\ pc' = [pc EXCEPT ![r] = "done"]
             /\ resp' = [resp EXCEPT ![r] = Error("Product is not available", 400)]
        ELSE IF stock[p] < QuantityOrOne(q)
        THEN /\ pc' = [pc EXCEPT ![r] = "done"]
             /\ resp' = [resp EXCEPT ![r] = Error("Insufficient stock", 400)]
        ELSE /\ pc' = [pc EXCEPT ![r] = "ac_find"]
             /\ resp' = resp
     \/ /\ pc' = [pc EXCEPT ![r] = "done"]
        /\ resp' = [resp EXCEPT ![r] = Error("Failed to add item to cart", 500)]
  /\ UNCHANGED <<store, loc, muts>>

\* cartItem.findFirst({where: {userId, productId}}): any matching row, as no
\* order is asked for; NoCartItem for null; when the store call rejects, the
\* catch answers 500.
AddToCartFind(r) ==
  /\ pc[r] = "ac_find"
  /\ \/ /\ LET matches == {c \in cartItems : c.userId = req[r].userId
                                             /\ c.productId = req[r].productId}
           IN \E c \in (IF matches = {} THEN {NoCartItem} ELSE matches) :
                loc' = [loc EXCEPT ![r].existingCartItem = c]
        /\ pc' = [pc EXCEPT ![r] = "ac_write"]
        /\ resp' = resp
     \/ /\ loc' = loc
        /\ pc' = [pc EXCEPT ![r] = "done"]
        /\ resp' = [resp EXCEPT ![r] = Error("Failed to add item to cart", 500)]
  /\ UNCHANGED <<store, req, muts>>

\* The id the store gives a new cart row.
NewCartItemId ==
  1 + CHOOSE m \in {c.id : c \in cartItems} \cup {Cardinality(Users \X Products)} :
        \A c \in cartItems : c.id <= m

\* cartItem.update of the row read, to the quantity read plus the quantity
\* asked, or cartItem.create; an update of a row that is gone throws, and
\* either call may reject: the catch answers 500.
AddToCartWrite(r) ==
  /\ pc[r] = "ac_write"
  /\ LET existing == loc[r].existingCartItem
         updated == [existing EXCEPT !.quantity = @ + QuantityOrOne(req[r].quantity)]
         created == [id |-> NewCartItemId, userId |-> req[r].userId,
                     productId |-> req[r].productId,
                     quantity |-> QuantityOrOne(req[r].quantity)]
     IN \/ /\ existing = NoCartItem
           /\ cartItems' = cartItems \cup {created}
           /\ muts' = [muts EXCEPT ![r] = @ \cup {"cart"}]
           /\ resp' = [resp EXCEPT ![r] =
                         Success(<<created>>, "Item added to cart successfully", 200)]
        \/ /\ existing # NoCartItem
           /\ \E c \in cartItems : c.id = existing.id
           /\ cartItems' = {c \in cartItems : c.id # existing.id} \cup {updated}
           /\ muts' = [muts EXCEPT ![r] = @ \cup {"cart"}]
           /\ resp' = [resp EXCEPT ![r] =
                         Success(<<updated>>, "Item added to cart successfully", 200)]
        \/ /\ cartItems' = cartItems
           /\ muts' = muts
           /\ resp' = [resp EXCEPT ![r] = Error("Failed to add item to cart", 500)]
  /\ pc' = [pc EXCEPT ![r] = "done"]
  /\ UNCHANGED <<categories, stock, isActive, prices, addresses, orders, orderItems, req, loc>>

\* ------------------------------------------------------- updateCartItem
\* The request arrives; cartItem.findFirst({where: {id: itemId, userId}});
\* when the store call rejects, the catch answers 500.
UpdateCartItemFind(r, u, itemId, q) ==
  /\ Free(r)
  /\ req' = [req EXCEPT ![r] = [NoReq EXCEPT !.op = "updateCartItem", !.userId = u,
                                             !.id = itemId, !.quantity = q]]
  /\ \/ IF \E c \in cartItems : c.id = itemId /\ c.userId = u
        THEN /\ pc' = [pc EXCEPT ![r] = "uc_write"]
             /\ resp' = resp
             /\ loc' = [loc EXCEPT ![r].existingCartItem =
                          CHOOSE c \in cartItems : c.id = itemId /\ c.userId = u]
        ELSE /\ pc' = [pc EXCEPT ![r] = "done"]
             /\ resp' = [resp EXCEPT ![r] = Error("Cart item not found", 404)]
             /\ loc' = loc
     \/ /\ pc' = [pc EXCEPT ![r] = "done"]
        /\ resp' = [resp EXCEPT ![r] = Error("Failed to update cart item", 500)]
        /\ loc' = loc
  /\ UNCHANGED <<store, muts>>

\* cartItem.update({where: {id: itemId}, data: {quantity}}): an absent
\* quantity leaves the row as it is; an update of a row that is gone throws,
\* and the call may reject: the catch answers 500.
UpdateCartItemWrite(r) ==
  /\ pc[r] = "uc_write"
  /\ \/ /\ \E c \in cartItems : c.id = req[r].id
        /\ LET row == CHOOSE c \in cartItems : c.id = req[r].id
               updated == IF req[r].quantity = <<>> THEN row
                          ELSE [row EXCEPT !.quantity = req[r].quantity[1]]
           IN /\ cartItems' = (cartItems \ {row}) \cup {updated}
              /\ muts' = [muts EXCEPT ![r] = @ \cup {"cart"}]
              /\ resp' = [resp EXCEPT ![r] =
                            Success(<<updated>>, "Cart item updated successfully", 200)]
     \/ /\ cartItems' = cartItems
        /\ muts' = muts
        /\ resp' = [resp EXCEPT ![r] = Error("Failed to update cart item", 500)]
  /\ pc' = [pc EXCEPT ![r] = "done"]
  /\ UNCHANGED <<categories, stock, isActive, prices, addresses, orders, orderItems, req, loc>>

\* ------------------------------------------------------- removeFromCart
\* The request arrives; cartItem.findFirst({where: {id: itemId, userId}});
\* when the store call rejects, the catch answers 500.
RemoveFromCartFind(r, u, itemId) ==
  /\ Free(r)
  /\ req' = [req EXCEPT ![r] = [NoReq EXCEPT !.op = "removeFromCart", !.userId = u,
                                             !.id = itemId]]
  /\ \/ IF \E c \in cartItems : c.id = itemId /\ c.userId = u
        THEN /\ pc' = [pc EXCEPT ![r] = "rc_delete"]
             /\ resp' = resp
             /\ loc' = [loc EXCEPT ![r].existingCartItem =
                          CHOOSE c \in cartItems : c.id = itemId /\ c.userId = u]
        ELSE /\ pc' = [pc EXCEPT ![r] = "done"]
             /\ resp' = [resp EXCEPT ![r] = Error("Cart item not found", 404)]
             /\ loc' = loc
     \/ /\ pc' = [pc EXCEPT ![r] = "done"]
        /\ resp' = [resp EXCEPT ![r] = Error("Failed to remove item from cart", 500)]
        /\ loc' = loc
  /\ UNCHANGED <<store, muts>>

\* cartItem.delete({where: {id: itemId}}) and the response, its data the
\* item id; a delete of a row that is gone throws, and the call may reject:
\* the catch answers 500.
RemoveFromCartDelete(r) ==
  /\ pc[r] = "rc_delete"
  /\ \/ /\ \E c \in cartItems : c.id = req[r].id
        /\ cartItems' = {c \in cartItems : c.id # req[r].id}
        /\ muts' = [muts EXCEPT ![r] = @ \cup {"cart"}]
        /\ resp' = [resp EXCEPT ![r] =
                      Success(<<[itemId |-> req[r].id]>>,
                              "Item removed from cart successfully", 200)]
     \/ /\ cartItems' = cartItems
        /\ muts' = muts
        /\ resp' = [resp EXCEPT ![r] = Error("Failed to remove item from cart", 500)]
  /\ pc' = [pc EXCEPT ![r] = "done"]
  /\ UNCHANGED <<categories, stock, isActive, prices, addresses, orders, orderItems, req, loc>>

\* ------------------------------------------------------------ clearCart
\* The request arrives; cartItem.deleteMany({where: {userId}}) and the
\* response, its data an empty object; when the store call rejects, the
\* catch answers 500.
ClearCartRequest(r, u) ==
  /\ Free(r)
  /\ req' = [req EXCEPT ![r] = [NoReq EXCEPT !.op = "clearCart", !.userId = u]]
  /\ \/ /\ cartItems' = ClearCart(u)
        /\ muts' = [muts EXCEPT ![r] = @ \cup {"cart"}]
        /\ resp' = [resp EXCEPT ![r] = Success(<<<<>>>>, "Cart cleared successfully", 200)]
     \/ /\ cartItems' = cartItems
        /\ muts' = muts
        /\ resp' = [resp EXCEPT ![r] = Error("Failed to clear cart", 500)]
  /\ pc' = [pc EXCEPT ![r] = "done"]
  /\ UNCHANGED <<categories, stock, isActive, prices, addresses, orders, orderItems, loc>>

\* ------------------------------------------------------------------ carts
\* Users adding products to their carts, setting quantities, removing rows
\* and clearing their carts.
QuantityInputs == {<<>>, <<-1>>, <<0>>, <<2>>}

NextCart ==
  \/ \E r \in Reqs, u \in Users, p \in Products \cup {MissingProductId},
        q \in QuantityInputs : AddToCartProduct(r, u, p, q)
  \/ \E r \in Reqs : AddToCartFind(r)
  \/ \E r \in Reqs : AddToCartWrite(r)
  \/ \E r \in Reqs, u \in Users, itemId \in {c.id : c \in cartItems} \cup {0},
        q \in QuantityInputs : UpdateCartItemFind(r, u, itemId, q)
  \/ \E r \in Reqs : UpdateCartItemWrite(r)
  \/ \E r \in Reqs, u \in Users, itemId \in {c.id : c \in cartItems} \cup {0} :
        RemoveFromCartFind(r, u, itemId)
  \/ \E r \in Reqs : RemoveFromCartDelete(r)
  \/ \E r \in Reqs, u \in Users : ClearCartRequest(r, u)

SpecCart == Init /\ [][NextCart]_vars

\* createOrder to the user's own address, with getCart, addToCart and
\* updateCartItem requests in flight, their quantity absent or 2.
NextInterleaved ==
  \/ \E r \in Reqs, u \in Users : GetCart(r, u)
  \/ \E r \in Reqs, u \in Users, pm \in PaymentMethods : CreateOrderCart(r, u, u, pm)
  \/ \E r \in Reqs : CreateOrderAddress(r, r, 0)
  \/ \E r \in Reqs : CreateOrderCommit(r)
  \/ \E r \in Reqs : CreateOrderRollback(r)
  \/ \E r \in Reqs, u \in Users, p \in Products, q \in {<<>>, <<2>>} :
        AddToCartProduct(r, u, p, q)
  \/ \E r \in Reqs : AddToCartFind(r)
  \/ \E r \in Reqs : AddToCartWrite(r)
  \/ \E r \in Reqs, u \in Users, itemId \in 1..Cardinality(Users \X Products),
        q \in {<<>>, <<2>>} : UpdateCartItemFind(r, u, itemId, q)
  \/ \E r \in Reqs : UpdateCartItemWrite(r)

SpecInterleaved == InitCatalogue /\ [][NextInterleaved]_vars

\* -------------------------------------------------------------- protect
\* An authorization header is the sequence of its words between single
\* spaces, <<>> when the header is absent; its first word is a string and
\* its second word, the token, is the credential [signed, id] that
\* jwt.verify finds in it.
\* 'Bearer'
BearerWord == <<66, 101, 97, 114, 101, 114>>

\* if (authorization && authorization.startsWith('Bearer'))
\*   token = authorization.split(' ')[1]
\* 'Bearer' has no space, so the header starts with it exactly when its first
\* word does.  <<>> is undefined.
TokenOf(header) ==
  IF /\ header # <<>>
     /\ Len(header[1]) >= Len(BearerWord)
     /\ SubSeq(header[1], 1, Len(BearerWord)) = BearerWord
     /\ Len(header) >= 2
  THEN <<header[2]>>
  ELSE <<>>

\* The User table of the ORM.  Account 3 is a deactivated administrator
\* whose id the legacy userquery table holds too; no modelled handler writes
\* either table.
UserRows ==
  {[id |-> 1, role |-> "USER", isActive |-> <<TRUE>>],
   [id |-> 2, role |-> "ADMIN", isActive |-> <<TRUE>>],
   [id |-> 3, role |-> "ADMIN", isActive |-> <<FALSE>>]}

\* prisma.user.findUnique({where: {id}}) and the userquery SELECT, each
\* giving the rows found; the legacy table holds the ids 3 and 4, and a
\* legacy row has no isActive and gets role USER.
FindUser(id) == {u \in UserRows : u.id = id}
FindLegacyUser(id) ==
  {[id |-> i, role |-> "USER", isActive |-> <<>>] : i \in {3, 4} \cap {id}}

\* !user.isActive && user.isActive !== undefined
Deactivated(user) == user.isActive # <<>> /\ ~user.isActive[1]

\* The admin middleware on req.user: the response it sends, NoResp when it
\* sends none and calls next().
Admin_AnyUser(user) ==
  IF user = NoUser THEN Error("Not authorized, user not found", 401) ELSE NoResp
Admin(user) ==
  IF user = NoUser THEN Error("Not authorized, user not found", 401)
  ELSE IF user.role = "ADMIN" THEN NoResp
  ELSE Error("Not authorized as admin", 403)

\* Routes mounted behind protect, admin; getOrder is behind protect alone.
CategoryRoutes == {"createCategory", "updateCategory", "deleteCategory"}

\* What follows a user lookup of request r that found user: the deactivation
\* check, req.user = user and next(); on a category route the admin
\* middleware; then the handler, which runs up to its first store call.
Admit(r, user) ==
  IF Deactivated(user)
  THEN /\ pc' = [pc EXCEPT ![r] = "done"]
       /\ resp' = [resp EXCEPT ![r] = Error("Account is deactivated", 401)]
       /\ loc' = loc
       /\ req' = req
  ELSE /\ loc' = [loc EXCEPT ![r].user = user]
       /\ req' = [req EXCEPT ![r].userId = user.id]
       /\ IF req[r].op \in CategoryRoutes /\ Admin(user) # NoResp
          THEN /\ pc' = [pc EXCEPT ![r] = "done"]
               /\ resp' = [resp EXCEPT ![r] = Admin(user)]
          ELSE /\ pc' = [pc EXCEPT ![r] =
                           IF req[r].op = "createCategory" THEN "cc_find"
                           ELSE IF req[r].op = "updateCategory" THEN "cu_find"
                           ELSE IF req[r].op = "deleteCategory" THEN "cd_find"
                           ELSE "go_find"]
               /\ resp' = resp

\* The request arrives at a protected route: the header check and
\* jwt.verify, which throws on a token that does not verify.
ProtectToken(r, op, header, id, name, active) ==
  /\ Free(r)
  /\ req' = [req EXCEPT ![r] = [NoReq EXCEPT !.op = op, !.authorization = header,
                                             !.id = id, !.name = name, !.active = active]]
  /\ LET token == TokenOf(header)
     IN IF token = <<>>
        THEN /\ pc' = [pc EXCEPT ![r] = "done"]
             /\ resp' = [resp EXCEPT ![r] = Error("Not authorized, no token", 401)]
             /\ loc' = loc
        ELSE IF ~token[1].signed
        THEN /\ pc' = [pc EXCEPT ![r] = "done"]
             /\ resp' = [resp EXCEPT ![r] = Error("Not authorized, token failed", 401)]
             /\ loc' = loc
        ELSE /\ pc' = [pc EXCEPT ![r] = "pr_user"]
             /\ resp' = resp
             /\ loc' = [loc EXCEPT ![r].decoded = token[1].id]
  /\ UNCHANGED <<store, muts>>

\* prisma.user.findUnique: a lookup that throws is logged and leaves user
\* null, as a lookup that finds no row does.
ProtectUser(r, throws) ==
  /\ pc[r] = "pr_user"
  /\ LET found == IF throws THEN {} ELSE FindUser(loc[r].decoded)
     IN IF found # {}
        THEN Admit(r, CHOOSE u \in found : TRUE)
        ELSE /\ pc' = [pc EXCEPT ![r] = "pr_legacy"]
             /\ UNCHANGED <<req, loc, resp>>
  /\ UNCHANGED <<store, muts>>

\* The userquery SELECT for a user the ORM lookup did not give.
ProtectLegacy(r, throws) ==
  /\ pc[r] = "pr_legacy"
  /\ LET found == IF throws THEN {} ELSE FindLegacyUser(loc[r].decoded)
     IN IF found # {}
        THEN Admit(r, CHOOSE u \in found : TRUE)
        ELSE /\ pc' = [pc EXCEPT ![r] = "done"]
             /\ resp' = [resp EXCEPT ![r] = Error("Not authorized, user not found", 401)]
             /\ UNCHANGED <<req, loc>>
  /\ UNCHANGED <<store, muts>>

\* getOrder behind protect: order.findFirst for req.user.id and the answer;
\* when the store call rejects, the catch answers 500.
GetOrderFind(r) ==
  /\ pc[r] = "go_find"
  /\ \/ resp' = [resp EXCEPT ![r] =
            IF FindOrder(req[r].id, req[r].userId) = {}
            THEN Error("Order not found", 404)
            ELSE Success(<<[order |-> CHOOSE o \in FindOrder(req[r].id, req[r].userId) : TRUE,
                            items |-> ItemsWithProduct(req[r].id),
                            address |-> "John Doe"]>>,
                         "Order retrieved successfully", 200)]
     \/ resp' = [resp EXCEPT ![r] = Error("Failed to retrieve order", 500)]
  /\ pc' = [pc EXCEPT ![r] = "done"]
  /\ UNCHANGED <<store, req, loc, muts>>

\* ------------------------------------------------------------- category
\* s.toLowerCase().replace(/[^a-z0-9]+/g, '-'): every run of code units
\* that are not lower-case letters or digits after toLowerCase becomes one
\* dash.  toLowerCase takes "A".."Z" to "a".."z", the Kelvin sign U+212A to
\* "k" and U+0130 to "i" with U+0307; the lower case of every other code
\* unit is, as the unit itself, outside a-z and 0-9, so it is left in place.
Dashed(s) ==
  LET LowerCase(ch) ==
        IF ch \in 65..90 THEN <<ch + 32>>
        ELSE IF ch = 8490 THEN <<107>>
        ELSE IF ch = 304 THEN <<105, 775>>
        ELSE <<ch>>
      lowered[i \in 0..Len(s)] ==
        IF i = 0 THEN <<>> ELSE lowered[i - 1] \o LowerCase(s[i])
      low == lowered[Len(s)]
      Kept(ch) == ch \in 48..57 \cup 97..122
      dashed[i \in 0..Len(low)] ==
        IF i = 0 THEN <<>>
        ELSE IF Kept(low[i]) THEN dashed[i - 1] \o <<low[i]>>
        ELSE IF i > 1 /\ ~Kept(low[i - 1]) THEN dashed[i - 1]
        ELSE dashed[i - 1] \o <<45>>
  IN dashed[Len(low)]

\* ... .replace(/(^-|-$)/g, ''): a dash at the start and a dash at the end go.
Slug(name) ==
  LET s == Dashed(name)
      a == IF s # <<>> /\ s[1] = 45 THEN 2 ELSE 1
      b == IF Len(s) >= a /\ s[Len(s)] = 45 THEN Len(s) - 1 ELSE Len(s)
  IN SubSeq(s, a, b)

\* A thrown error of a handler reaches the error middleware.
ServerError == Error("Internal server error", 500)

\* The name of a request body is <<>> when absent, else <<name>>.
\* category.findUnique({where: {name}}) of createCategory; it throws when the
\* body has no name, and the call may reject.
CreateCategoryFind(r) ==
  /\ pc[r] = "cc_find"
  /\ \/ /\ req[r].name # <<>>
        /\ IF \E c \in categories : c.name = req[r].name[1]
           THEN /\ pc' = [pc EXCEPT ![r] = "done"]
                /\ resp' = [resp EXCEPT ![r] =
                              Error("Category with this name already exists", 400)]
           ELSE /\ pc' = [pc EXCEPT ![r] = "cc_write"]
                /\ resp' = resp
     \/ /\ pc' = [pc EXCEPT ![r] = "done"]
        /\ resp' = [resp EXCEPT ![r] = ServerError]
  /\ UNCHANGED <<store, req, loc, muts>>

\* category.create with isActive true when the body gives none (the option
\* <<>>): name and slug are unique, so a row that repeats one throws, and
\* the call may reject.
CreateCategoryWrite(r) ==
  /\ pc[r] = "cc_write"
  /\ LET created == [id |-> 1 + Cardinality(categories \cup InitCategories),
                     name |-> req[r].name[1], slug |-> Slug(req[r].name[1]),
                     isActive |-> (IF req[r].active = <<>> THEN TRUE ELSE req[r].active[1]),
                     products |-> 0]
     IN \/ /\ ~\E c \in categories : c.name = created.name \/ c.slug = created.slug
           /\ categories' = categories \cup {created}
           /\ muts' = [muts EXCEPT ![r] = @ \cup {"category"}]
           /\ resp' = [resp EXCEPT ![r] =
                         Success(<<created>>, "Category created successfully", 201)]
        \/ /\ categories' = categories
           /\ muts' = muts
           /\ resp' = [resp EXCEPT ![r] = ServerError]
  /\ pc' = [pc EXCEPT ![r] = "done"]
  /\ UNCHANGED <<stock, isActive, prices, cartItems, addresses, orders, orderItems, req, loc>>

\* category.findUnique({where: {id}}) of updateCategory and deleteCategory,
\* and deleteCategory's check of the product count; the call may reject.
CategoryFind(r) ==
  /\ pc[r] \in {"cu_find", "cd_find"}
  /\ \/ IF ~\E c \in categories : c.id = req[r].id
        THEN /\ pc' = [pc EXCEPT ![r] = "done"]
             /\ resp' = [resp EXCEPT ![r] = Error("Category not found", 404)]
        ELSE LET category == CHOOSE c \in categories : c.id = req[r].id
             IN IF pc[r] = "cd_find" /\ category.products > 0
                THEN /\ pc' = [pc EXCEPT ![r] = "done"]
                     /\ resp' = [resp EXCEPT ![r] =
                          Error("Cannot delete category with existing products", 400)]
                ELSE /\ pc' = [pc EXCEPT ![r] =
                                 IF pc[r] = "cu_find" THEN "cu_write" ELSE "cd_write"]
                     /\ resp' = resp
     \/ /\ pc' = [pc EXCEPT ![r] = "done"]
        /\ resp' = [resp EXCEPT ![r] = ServerError]
  /\ UNCHANGED <<store, req, loc, muts>>

\* category.update with updateData: the name and its slug when a name is
\* given and is not the empty string, isActive when given.  It throws when the row is gone or when the
\* name or the slug is that of another row, and the call may reject.
UpdateCategoryWrite(r) ==
  /\ pc[r] = "cu_write"
  /\ \/ /\ \E c \in categories : c.id = req[r].id
        /\ LET row == CHOOSE c \in categories : c.id = req[r].id
               named == IF req[r].name \notin {<<>>, <<<<>>>>}
                        THEN [row EXCEPT !.name = req[r].name[1],
                                         !.slug = Slug(req[r].name[1])]
                        ELSE row
               updated == IF req[r].active # <<>>
                          THEN [named EXCEPT !.isActive = req[r].active[1]]
                          ELSE named
           IN /\ ~\E c \in categories \ {row} :
                    c.name = updated.name \/ c.slug = updated.slug
              /\ categories' = (categories \ {row}) \cup {updated}
              /\ muts' = [muts EXCEPT ![r] = @ \cup {"category"}]
              /\ resp' = [resp EXCEPT ![r] =
                            Success(<<updated>>, "Category updated successfully", 200)]
     \/ /\ categories' = categories
        /\ muts' = muts
        /\ resp' = [resp EXCEPT ![r] = ServerError]
  /\ pc' = [pc EXCEPT ![r] = "done"]
  /\ UNCHANGED <<stock, isActive, prices, cartItems, addresses, orders, orderItems, req, loc>>

\* category.delete({where: {id}}): it throws when the row is gone, and the
\* call may reject.
DeleteCategoryWrite(r) ==
  /\ pc[r] = "cd_write"
  /\ \/ /\ \E c \in categories : c.id = req[r].id
        /\ categories' = {c \in categories : c.id # req[r].id}
        /\ muts' = [muts EXCEPT ![r] = @ \cup {"category"}]
        /\ resp' = [resp EXCEPT ![r] = Success(<<>>, "Category deleted successfully", 200)]
     \/ /\ categories' = categories
        /\ muts' = muts
        /\ resp' = [resp EXCEPT ![r] = ServerError]
  /\ pc' = [pc EXCEPT ![r] = "done"]
  /\ UNCHANGED <<stock, isActive, prices, cartItems, addresses, orders, orderItems, req, loc>>

\* Authorization headers: none, Bearer without a token, another scheme
\* (Basic), a word that starts with Bearer (Bearerx), and Bearer with a token that verifies for
\* an account id (5 is the id of no account) or does not verify.
Headers ==
  {<<>>, <<BearerWord>>,
   <<<<66, 97, 115, 105, 99>>, [signed |-> TRUE, id |-> 2]>>,
   <<BearerWord \o <<120>>, [signed |-> TRUE, id |-> 1]>>,
   <<BearerWord, [signed |-> FALSE, id |-> 2]>>}
  \cup {<<BearerWord, [signed |-> TRUE, id |-> i]>> : i \in 1..5}

\* Route, params.id and body of the requests: names are absent, empty,
\* taken ("Tv"), new with the slug of a taken one ("TV &"), or new ("Hi-Fi",
\* and "K pc" written with the Kelvin sign).
RouteInputs ==
  LET hifi == <<72, 105, 45, 70, 105>>
  IN [op : {"getOrder"}, id : {1}, name : {<<>>}, active : {<<>>}]
     \cup [op : {"createCategory"}, id : {0},
           name : {<<>>, <<<<>>>>, <<<<84, 118>>>>, <<<<84, 86, 32, 38>>>>, <<hifi>>,
                   <<<<8490, 32, 112, 99>>>>},
           active : {<<>>}]
     \cup [op : {"createCategory"}, id : {0}, name : {<<hifi>>}, active : {<<FALSE>>}]
     \cup [op : {"updateCategory"}, id : {2, 3}, name : {<<>>, <<<<>>>>, <<hifi>>},
           active : {<<FALSE>>}]
     \cup [op : {"deleteCategory"}, id : {1, 2, 3}, name : {<<>>}, active : {<<>>}]

NextAuth ==
  \/ \E r \in Reqs, header \in Headers, in \in RouteInputs :
        ProtectToken(r, in.op, header, in.id, in.name, in.active)
  \/ \E r \in Reqs, throws \in BOOLEAN : ProtectUser(r, throws)
  \/ \E r \in Reqs, throws \in BOOLEAN : ProtectLegacy(r, throws)
  \/ \E r \in Reqs : GetOrderFind(r)
  \/ \E r \in Reqs : CreateCategoryFind(r)
  \/ \E r \in Reqs : CreateCategoryWrite(r)
  \/ \E r \in Reqs : CategoryFind(r)
  \/ \E r \in Reqs : UpdateCategoryWrite(r)
  \/ \E r \in Reqs : DeleteCategoryWrite(r)

SpecAuth == InitCatalogue /\ [][NextAuth]_vars

\* ---------------------------------------------------- createOrder alone
\* createOrder requests only, with own, foreign and missing address ids.
NextResponses ==
  \/ \E r \in Reqs : CreateOrderInvalid(r)
  \/ \E r \in Reqs, u \in Users, a \in (Users \cup {MissingAddressId}),
        pm \in PaymentMethods : CreateOrderCart(r, u, a, pm)
  \/ \E r \in Reqs : CreateOrderAddress(r, r, 0)
  \/ \E r \in Reqs : CreateOrderPlaceholder(r, r, 0)
  \/ \E r \in Reqs : CreateOrderCommit(r)
  \/ \E r \in Reqs : CreateOrderRollback(r)

SpecResponses == Init /\ [][NextResponses]_vars

Next ==
  \/ \E r \in Reqs : CreateOrderInvalid(r)
  \/ \E r \in Reqs, u \in Users, a \in (Users \cup {MissingAddressId}),
        pm \in PaymentMethods : CreateOrderCart(r, u, a, pm)
  \/ \E r \in Reqs : CreateOrderAddress(r, r, 0)
  \/ \E r \in Reqs : CreateOrderPlaceholder(r, r, 0)
  \/ \E r \in Reqs : CreateOrderCommit(r)
  \/ \E r \in Reqs : CreateOrderRollback(r)
  \/ \E r \in Reqs, u \in Users, id \in 1..(Cardinality(orders) + 1) : CancelOrderFind(r, u, id)
  \/ \E r \in Reqs : CancelOrderCommit(r)
  \/ \E r \in Reqs : CancelOrderRollback(r)
  \/ \E id \in 1..MaxOrders : AdvanceOrder(id)

\* Every request is served in a millisecond of its own, with random draw 0.
Spec == Init /\ [][Next]_vars

\* =========================================================== properties
IsCreate(r) == req[r].op = "createOrder" /\ req[r].userId # 0
IsCancel(r) == req[r].op = "cancelOrder"
\* Request r takes a step.
Steps(r) == pc'[r] # pc[r]
\* Request r arrives in this step.
Arrives(r) == pc[r] = "idle" /\ pc'[r] # "idle"

\* Quantity the lines of a cart snapshot hold of product p.
LineQty(items, p) ==
  LET idx == {i \in 1..Len(items) : items[i].productId = p}
  IN IF idx = {} THEN 0 ELSE items[CHOOSE i \in idx : TRUE].quantity

\* A line of the snapshot is inactive or asks for more than the stock read.
BadLine(items) ==
  \E i \in 1..Len(items) :
    \/ ~items[i].product.isActive
    \/ items[i].quantity > items[i].product.stock

\* Order items of non-cancelled orders.
LiveItems ==
  {it \in orderItems : \E o \in orders : o.id = it.orderId /\ o.status # "CANCELLED"}

\* C1: in every reachable state, every product's stock is >= 0.
C1_StockNeverNegative == \A p \in Products : stock[p] >= 0

\* Two createOrder requests of different users both read product p with
\* stock 1 for a cart line of quantity 1, every line they read being valid,
\* and both got an answer that is not a storage failure.
C2_Raced(r1, r2, p) ==
  /\ r1 # r2 /\ IsCreate(r1) /\ IsCreate(r2)
  /\ req[r1].userId # req[r2].userId
  /\ pc[r1] = "done" /\ pc[r2] = "done"
  /\ resp[r1].code # 500 /\ resp[r2].code # 500
  /\ \A r \in {r1, r2} :
       /\ ~BadLine(loc[r].cartItems)
       /\ \E i \in 1..Len(loc[r].cartItems) :
            /\ loc[r].cartItems[i].productId = p
            /\ loc[r].cartItems[i].quantity = 1
            /\ loc[r].cartItems[i].product.stock = 1
  /\ \A o \in orders : o.status # "CANCELLED"

\* C2: of two createOrder requests racing for the last unit of a product,
\* exactly one succeeds, the other answers insufficient stock, and the
\* product's stock ends at 0.
C2_OneWinner ==
  \A r1, r2 \in Reqs : \A p \in Products :
    C2_Raced(r1, r2, p) =>
      /\ \/ resp[r1].code = 201 /\ resp[r2] = Error("Insufficient stock", 400)
         \/ resp[r2].code = 201 /\ resp[r1] = Error("Insufficient stock", 400)
      /\ stock[p] = 0

\* C3: the step in which createOrder succeeds lowers the stock of every
\* product by the quantity of the request's cart line for it (by nothing when
\* it has no line) and leaves no cart row of the user.
C3_CommitDecrementsAndClears ==
  [][\A r \in Reqs :
       (IsCreate(r) /\ Steps(r) /\ resp'[r].code = 201) =>
         /\ Len(loc[r].cartItems) > 0
         /\ ~BadLine(loc[r].cartItems)
         /\ \A p \in Products :
              stock'[p] = stock[p] - LineQty(loc[r].cartItems, p)
         /\ \A c \in cartItems' : c.userId # req[r].userId]_vars

C3_Witness ==
  \E r \in Reqs :
    /\ IsCreate(r) /\ pc[r] = "done" /\ resp[r].code = 201
    /\ Len(loc[r].cartItems) = 2
    /\ \E i \in 1..2 : loc[r].cartItems[i].quantity = 2
    /\ \A c \in cartItems : c.userId # req[r].userId

\* A createOrder request whose body the schema accepts arrives while its
\* user has no cart row.
ArrivesAtEmptyCart(r) ==
  /\ Arrives(r) /\ req'[r].op = "createOrder" /\ req'[r].userId # 0
  /\ \A c \in cartItems : c.userId # req'[r].userId

\* C4: a createOrder request that arrives while its user has no cart row
\* answers 400 "Cart is empty" in that step and leaves every table as it was.
C4_EmptyCartFails ==
  [][\A r \in Reqs :
       ArrivesAtEmptyCart(r) =>
         /\ pc'[r] = "done"
         /\ resp'[r] = Error("Cart is empty", 400)
         /\ UNCHANGED store]_vars

\* C4 (amended): a createOrder request that arrives while its user has no
\* cart row ends in that step and leaves every table as it was; it answers
\* 400 "Cart is empty", or 500 "Failed to create order" when the cart read
\* itself is rejected by the store (the locals then hold no cart).
C4_EmptyCartNoMutation ==
  [][\A r \in Reqs :
       ArrivesAtEmptyCart(r) =>
         /\ pc'[r] = "done"
         /\ \/ resp'[r] = Error("Cart is empty", 400) /\ loc'[r].validAddressId = req'[r].addressId
            \/ resp'[r] = Error("Failed to create order", 500) /\ loc'[r] = NoLoc
         /\ UNCHANGED store]_vars

C4_Witness ==
  \E r \in Reqs :
    /\ IsCreate(r) /\ pc[r] = "done"
    /\ resp[r] = Error("Cart is empty", 400)
    /\ muts[r] = {}

\* C5: a createOrder request that read a cart line of an inactive product, or
\* of a quantity above the stock it read, never changes orders, order items,
\* stock or cart in any of its steps, never enters the transaction, and ends
\* with a failure answer: 400 for the bad line, or 500 when the address
\* lookup or the address creation before the totals loop is rejected.
C5_BadLineFailsWhole ==
  [][\A r \in Reqs :
       (IsCreate(r) /\ BadLine(loc[r].cartItems) /\ Steps(r)) =>
         /\ UNCHANGED <<orders, orderItems, stock, cartItems>>
         /\ pc'[r] # "co_tx"
         /\ pc'[r] = "done" =>
              resp'[r] \in {Error("no longer available", 400),
                            Error("Insufficient stock", 400),
                            Error("Failed to create order", 500)}]_vars

C5_Witness ==
  \E r \in Reqs :
    /\ IsCreate(r) /\ pc[r] = "done"
    /\ resp[r] = Error("Insufficient stock", 400)
    /\ Len(loc[r].cartItems) = 2
    /\ loc[r].cartItems[2].product.isActive
    /\ loc[r].cartItems[2].quantity <= loc[r].cartItems[2].product.stock
    /\ stock[2] = loc[r].cartItems[2].product.stock
    /\ \E c \in cartItems : c.userId = req[r].userId

\* The address a request names exists and belongs to the requesting user.
OwnAddress(u, a) == \E x \in InitAddresses : x.id = a /\ x.userId = u

\* C6: createOrder with an address id that does not exist or is another
\* user's answers 400 and creates no order, so every order's address is one
\* that existed before the request and belongs to the order's user.
C6_AddressOwned ==
  /\ \A r \in Reqs :
       (/\ IsCreate(r) /\ pc[r] = "done" /\ Len(loc[r].cartItems) > 0
        /\ ~OwnAddress(req[r].userId, req[r].addressId)) =>
         /\ resp[r].code = 400
         /\ "order" \notin muts[r]
  /\ \A o \in orders : OwnAddress(o.userId, o.addressId)

\* C7: a createOrder request that ended in a failure response has written to
\* no table.
C7_FailureLeavesStore ==
  \A r \in Reqs :
    (req[r].op = "createOrder" /\ pc[r] = "done" /\ resp[r].code >= 400) =>
      muts[r] = {}

\* A step in which cancelOrder succeeds raises each product's stock by the
\* quantity of the order's items.
CancelRestoresOnce ==
  \A r \in Reqs :
    (IsCancel(r) /\ Steps(r) /\ resp'[r].code = 200) =>
      \A p \in Products : stock'[p] = stock[p] + SumQty(ItemsOf(req[r].id), p)

\* Request r2 arrives as a cancelOrder for the order that request r1 of the
\* same user has cancelled with success.
ArrivesAfterCancel(r1, r2) ==
  /\ IsCancel(r1) /\ pc[r1] = "done" /\ resp[r1].code = 200
  /\ Arrives(r2) /\ req'[r2].op = "cancelOrder"
  /\ req'[r2].id = req[r1].id /\ req'[r2].userId = req[r1].userId

\* C8: the step in which cancelOrder succeeds raises each product's stock by
\* the quantity of the order's items, and a cancelOrder for the same order by
\* the same user that arrives after that success changes no table and
\* answers 400 "Order cannot be cancelled".
C8_CancelTwiceInvalidState ==
  [][/\ CancelRestoresOnce
     /\ \A r1, r2 \in Reqs :
          ArrivesAfterCancel(r1, r2) =>
            /\ pc'[r2] = "done"
            /\ resp'[r2] = Error("Order cannot be cancelled", 400)
            /\ UNCHANGED store]_vars

\* C8 (amended): the step in which cancelOrder succeeds raises each product's
\* stock by the quantity of the order's items, and a cancelOrder for the same
\* order by the same user that arrives after that success changes no table
\* and answers 400 "Order cannot be cancelled" when it has read the order,
\* 500 "Failed to cancel order" when its read of the order is rejected.
C8_CancelTwice ==
  [][/\ CancelRestoresOnce
     /\ \A r1, r2 \in Reqs :
          ArrivesAfterCancel(r1, r2) =>
            /\ pc'[r2] = "done"
            /\ \/ /\ resp'[r2] = Error("Order cannot be cancelled", 400)
                  /\ loc'[r2].order.status = "CANCELLED"
               \/ /\ resp'[r2] = Error("Failed to cancel order", 500)
                  /\ loc'[r2] = NoLoc
            /\ UNCHANGED store]_vars

C8_Witness ==
  \E r1, r2 \in Reqs :
    /\ r1 < r2 /\ IsCancel(r1) /\ IsCancel(r2)
    /\ req[r1].id = req[r2].id /\ req[r1].userId = req[r2].userId
    /\ pc[r1] = "done" /\ resp[r1].code = 200
    /\ pc[r2] = "done" /\ resp[r2] = Error("Order cannot be cancelled", 400)
    /\ loc[r2].order.status = "CANCELLED"
    /\ \A p \in Products : stock[p] = InitStock(p)

\* The orders of the user of request r with the id the request names, as the
\* order table holds them when the request arrives.
CalledFor(r) == {o \in orders : o.id = req'[r].id /\ o.userId = req'[r].userId}

\* C9: cancelOrder called for an order of its user goes on to its transaction,
\* the only step that answers success, only when the order table holds that
\* order as PENDING or CONFIRMED; called for an order that the table holds as
\* SHIPPED, DELIVERED or CANCELLED it fails in that step and leaves every
\* table as it was.
C9_OnlyPendingOrConfirmed ==
  [][\A r \in Reqs :
       /\ (IsCancel(r) /\ Steps(r) /\ resp'[r].code = 200) => pc[r] = "cx_tx"
       /\ (Arrives(r) /\ req'[r].op = "cancelOrder") =>
            /\ pc'[r] = "cx_tx" =>
                 \E o \in CalledFor(r) : o.status \in {"PENDING", "CONFIRMED"}
            /\ (\E o \in CalledFor(r) : o.status \in {"SHIPPED", "DELIVERED", "CANCELLED"}) =>
                 /\ pc'[r] = "done"
                 /\ resp'[r].code \in {400, 500}
                 /\ UNCHANGED store]_vars

C9_Witness ==
  \E r1, r2 \in Reqs :
    /\ IsCancel(r1) /\ pc[r1] = "done"
    /\ resp[r1] = Error("Order cannot be cancelled", 400)
    /\ loc[r1].order.status = "SHIPPED"
    /\ IsCancel(r2) /\ pc[r2] = "done"
    /\ resp[r2] = Error("Order cannot be cancelled", 400)
    /\ loc[r2].order.status = "DELIVERED"

\* C10: for every product, the stock plus the quantities of its items in
\* non-cancelled orders equals its initial stock.
C10_StockConservation ==
  \A p \in Products : stock[p] + SumQty(LiveItems, p) = InitStock(p)

IsCheckout(r) == req[r].op = "initiateCheckout" /\ req[r].userId # 0

RECURSIVE SumTotals(_)
\* Sum of the line totals of a set of order items, each to the hundredth.
SumTotals(S) ==
  IF S = {} THEN 0
  ELSE LET it == CHOOSE x \in S : TRUE
       IN ToFixed2(it.total) + SumTotals(S \ {it})

RECURSIVE SumPriceQty(_)
\* Sum of price times quantity over a set of order items, in hundredths.
SumPriceQty(S) ==
  IF S = {} THEN 0
  ELSE LET it == CHOOSE x \in S : TRUE
       IN it.price * it.quantity + SumPriceQty(S \ {it})

\* C11: for every order, the totals of its items add up to its subtotal, each
\* item's total is its price times its quantity, and the order's total is its
\* subtotal plus its shipping cost plus its tax (amounts compared to the
\* hundredth).
C11_OrderSums ==
  \A o \in orders :
    /\ SumTotals(ItemsOf(o.id)) = o.subtotal
    /\ \A it \in ItemsOf(o.id) : ToFixed2(it.total) = it.price * it.quantity
    /\ o.total = o.subtotal + o.shippingCost + o.tax

\* C12: the step in which createOrder succeeds inserts the request's order
\* with status CONFIRMED when the payment method is COD and PENDING
\* otherwise, and with payment status PENDING.
C12_InitialStatus ==
  [][\A r \in Reqs :
       (IsCreate(r) /\ Steps(r) /\ resp'[r].code = 201) =>
         \E o \in orders' :
           /\ o.id = req'[r].id
           /\ \A x \in orders : x.id # o.id
           /\ o.paymentMethod = req[r].paymentMethod
           /\ o.status = (IF req[r].paymentMethod = "COD" THEN "CONFIRMED" ELSE "PENDING")
           /\ o.paymentStatus = "PENDING"]_vars

C12_Witness ==
  \E r1, r2 \in Reqs : \E o1, o2 \in orders :
    /\ IsCreate(r1) /\ resp[r1].code = 201 /\ req[r1].paymentMethod = "COD"
    /\ IsCreate(r2) /\ resp[r2].code = 201 /\ req[r2].paymentMethod = "CARD"
    /\ o1.id = req[r1].id /\ o1.status = "CONFIRMED" /\ o1.paymentStatus = "PENDING"
    /\ o2.id = req[r2].id /\ o2.status = "PENDING" /\ o2.paymentStatus = "PENDING"

RECURSIVE LinesSum(_, _)
\* Sum over the first n lines of a cart snapshot of (sale price if present,
\* else list price) times quantity, in hundredths.
LinesSum(items, n) ==
  IF n = 0 THEN 0
  ELSE LinesSum(items, n - 1)
       + (IF items[n].product.salePrice # 0 THEN items[n].product.salePrice
          ELSE items[n].product.price) * items[n].quantity

\* Amounts that follow the pricing rule: free shipping from 999.00, tax 18 %
\* of the subtotal to the nearest hundredth, total the sum of the three.
PricedByRule(a) ==
  /\ a.shippingCost = (IF a.subtotal >= 99900 THEN 0 ELSE 5000)
  /\ 100 * a.tax - 18 * a.subtotal \in -50..50
  /\ a.total = a.subtotal + a.shippingCost + a.tax

\* C13: the amounts a successful createOrder or initiateCheckout answers
\* follow the pricing rule over the lines of the cart it read; a subtotal of
\* 1000 gives 0 / 180 / 1180 and a subtotal of 500 gives 50 / 90 / 640.
C13_Pricing ==
  \A r \in Reqs :
    (/\ pc[r] = "done" /\ resp[r].code \in {200, 201}
     /\ req[r].op \in {"createOrder", "initiateCheckout"}) =>
      /\ resp[r].data[1].subtotal = LinesSum(loc[r].cartItems, Len(loc[r].cartItems))
      /\ PricedByRule(resp[r].data[1])
      /\ resp[r].data[1].subtotal = 100000 =>
           /\ resp[r].data[1].shippingCost = 0
           /\ resp[r].data[1].tax = 18000
           /\ resp[r].data[1].total = 118000
      /\ resp[r].data[1].subtotal = 50000 =>
           /\ resp[r].data[1].shippingCost = 5000
           /\ resp[r].data[1].tax = 9000
           /\ resp[r].data[1].total = 64000

\* C14: the step that serves an initiateCheckout request changes no table;
\* unless the cart read fails, it answers 400 "Cart is empty" when the user
\* has no cart row; and it answers the amounts an earlier initiateCheckout
\* of the same user answered when the store is as it was then.
C14_CheckoutReadOnly ==
  [][\A r \in Reqs :
       (Arrives(r) /\ req'[r].op = "initiateCheckout") =>
         /\ pc'[r] = "done"
         /\ UNCHANGED store
         /\ (/\ req'[r].userId # 0 /\ resp'[r].code # 500
             /\ \A c \in cartItems : c.userId # req'[r].userId) =>
              resp'[r] = Error("Cart is empty", 400)
         /\ \A q \in Reqs :
              (/\ IsCheckout(q) /\ pc[q] = "done"
               /\ req[q].userId = req'[r].userId
               /\ resp[q].code = 200 /\ resp'[r].code = 200
               /\ loc[q].cartItems \in FindCart(req[q].userId)) =>
                /\ resp'[r].data[1].subtotal = resp[q].data[1].subtotal
                /\ resp'[r].data[1].shippingCost = resp[q].data[1].shippingCost
                /\ resp'[r].data[1].tax = resp[q].data[1].tax
                /\ resp'[r].data[1].total = resp[q].data[1].total]_vars

\* An order of another user than u has the id.
ForeignOrder(u, id) == \E o \in orders : o.id = id /\ o.userId # u

\* C15: getOrder and cancelOrder arriving with the id of another user's
\* order answer in that step without data, with 404 "Order not found" unless
\* the read of the order fails, and change no table; every order
\* getUserOrders reads or returns is the caller's.
C15_OwnershipScoped ==
  [][\A r \in Reqs :
       /\ (/\ Arrives(r) /\ req'[r].op \in {"getOrder", "cancelOrder"}
           /\ ForeignOrder(req'[r].userId, req'[r].id)) =>
            /\ pc'[r] = "done"
            /\ resp'[r].code # 500 => resp'[r] = Error("Order not found", 404)
            /\ resp'[r].data = <<>>
            /\ UNCHANGED store
       /\ (req'[r].op = "getUserOrders" /\ Steps(r)) =>
            /\ \A i \in 1..Len(loc'[r].orders) :
                 loc'[r].orders[i].order.userId = req'[r].userId
            /\ resp'[r].code = 200 =>
                 \A i \in 1..Len(resp'[r].data[1].orders) :
                   resp'[r].data[1].orders[i].order.userId = req'[r].userId]_vars

C15_Witness ==
  \E r1, r2 \in Reqs : \E o \in orders :
    /\ req[r1].op = "getOrder" /\ req[r2].op = "cancelOrder"
    /\ pc[r1] = "done" /\ pc[r2] = "done"
    /\ req[r1].id = o.id /\ req[r2].id = o.id
    /\ req[r1].userId # o.userId /\ req[r2].userId # o.userId
    /\ resp[r1] = Error("Order not found", 404)
    /\ resp[r2] = Error("Order not found", 404)
    /\ o.status = "CONFIRMED"

\* C16: no two orders have the same order number.
C16_UniqueOrderNumbers ==
  \A o1, o2 \in orders : o1.orderNumber = o2.orderNumber => o1.id = o2.id

\* C17: no two cart rows have the same user and the same product.
C17_OneRowPerProduct ==
  \A c1, c2 \in cartItems :
    (c1.userId = c2.userId /\ c1.productId = c2.productId) => c1.id = c2.id

\* C18: every cart row has a quantity of at least 1.
C18_QuantityPositive == \A c \in cartItems : c.quantity >= 1

\* C19: no step changes or removes an order item; the items the successful
\* createOrder step inserts are the lines of the cart it read, each at the
\* sale price it read if there was one, else at the list price it read, and
\* the order's subtotal is the sum of these prices times the quantities.
C19_ItemsImmutable ==
  [][/\ \A it \in orderItems : it \in orderItems'
     /\ \A r \in Reqs :
          (IsCreate(r) /\ Steps(r) /\ resp'[r].code = 201) =>
            /\ Cardinality(orderItems' \ orderItems) = Len(loc[r].cartItems)
            /\ \A it \in orderItems' \ orderItems :
                 /\ it.orderId = req'[r].id
                 /\ it.line \in 1..Len(loc[r].cartItems)
                 /\ it.productId = loc[r].cartItems[it.line].productId
                 /\ it.quantity = loc[r].cartItems[it.line].quantity
                 /\ it.price = (IF loc[r].cartItems[it.line].product.salePrice # 0
                                THEN loc[r].cartItems[it.line].product.salePrice
                                ELSE loc[r].cartItems[it.line].product.price)
                 /\ ToFixed2(it.total) = it.price * it.quantity
            /\ resp'[r].data[1].subtotal = SumPriceQty(orderItems' \ orderItems)]_vars

\* An item of an order made in this behaviour whose product has since got
\* another price and whose order has since got another status.
C19_Witness ==
  \E r \in Reqs : \E o \in orders : \E it \in orderItems :
    /\ IsCreate(r) /\ resp[r].code = 201 /\ o.id = req[r].id /\ it.orderId = o.id
    /\ it.productId = 2 /\ it.price = 45000
    /\ prices[2] # InitPrices[2]
    /\ o.status = "CANCELLED"

RECURSIVE DecimalValue(_, _)
\* The number the first n characters of s write, all of them digits.
DecimalValue(s, n) ==
  IF n = 0 THEN 0 ELSE 10 * DecimalValue(s, n - 1) + DigitValue(s[n])

\* s writes a number: it is not empty and all its characters are digits.
WritesNumber(s) == s # <<>> /\ \A i \in 1..Len(s) : IsDigit(s[i], 10)
\* The number s writes, d when s is absent or writes none.
ValueOrDefault(s, d) == IF WritesNumber(s) THEN DecimalValue(s, Len(s)) ELSE d

RECURSIVE RadixValue(_, _, _)
\* The number the first n characters of s write in the radix.
RadixValue(s, n, radix) ==
  IF n = 0 THEN 0 ELSE radix * RadixValue(s, n - 1, radix) + DigitValue(s[n])

\* The integer s starts with: after white space, with its sign, hexadecimal after
\* "0x" or "0X", decimal otherwise; 0 when s starts with none.
LeadingInteger(s) ==
  LET body == SubSeq(s, 1 + Cardinality({k \in 1..Len(s) :
                                           \A j \in 1..k : s[j] \in WhiteSpace}),
                     Len(s))
      unsigned == IF body # <<>> /\ body[1] \in {43, 45} THEN Tail(body) ELSE body
      hex == Len(unsigned) >= 2 /\ unsigned[1] = 48 /\ unsigned[2] \in {120, 88}
      digits == IF hex THEN SubSeq(unsigned, 3, Len(unsigned)) ELSE unsigned
      radix == IF hex THEN 16 ELSE 10
      n == Cardinality({k \in 1..Len(digits) : \A j \in 1..k : IsDigit(digits[j], radix)})
  IN (IF body # <<>> /\ body[1] = 45 THEN -1 ELSE 1) * RadixValue(digits, n, radix)
\* The integer s starts with, d when there is none or it is 0.
LeadingOrDefault(s, d) == IF LeadingInteger(s) # 0 THEN LeadingInteger(s) ELSE d

\* Position of order o among the orders of its user, newest first.
Rank(o) ==
  1 + Cardinality({x \in orders : x.userId = o.userId /\ x.createdAt > o.createdAt})

\* The list L holds exactly the orders of user u at positions
\* (p-1)*l+1 .. p*l, in that order.
ListedRight(L, u, p, l) ==
  /\ {L[i].order.id : i \in 1..Len(L)} =
       {o.id : o \in {x \in orders : x.userId = u /\ Rank(x) \in ((p - 1) * l + 1)..(p * l)}}
  /\ \A i \in 1..Len(L) : \E o \in orders :
       o.id = L[i].order.id /\ Rank(o) = (p - 1) * l + i

\* A step of getUserOrders request r is right for page p and limit l: it
\* changes no table, the findMany step reads the listed orders, and, unless
\* a store call fails, the count step answers them with the total and the
\* number of pages.
ListStepRight(r, p, l) ==
  /\ UNCHANGED store
  /\ resp'[r].code \in {0, 200, 500}
  /\ (pc[r] = "idle" /\ resp'[r].code # 500) =>
       ListedRight(loc'[r].orders, req'[r].userId, p, l)
  /\ resp'[r].code = 200 =>
       /\ resp'[r].data[1].orders = loc[r].orders
       /\ resp'[r].data[1].pagination.total =
            Cardinality({o \in orders : o.userId = req[r].userId})
       /\ resp'[r].data[1].pagination.pages * l >= resp'[r].data[1].pagination.total
       /\ \/ resp'[r].data[1].pagination.pages = 0
          \/ (resp'[r].data[1].pagination.pages - 1) * l < resp'[r].data[1].pagination.total

\* C20: every step of getUserOrders is right for the page and the limit the
\* query writes, 1 and 10 standing in for a value that is absent or writes
\* no number.
C20_Pagination ==
  [][\A r \in Reqs :
       (req'[r].op = "getUserOrders" /\ Steps(r)) =>
         ListStepRight(r, ValueOrDefault(req'[r].page, 1), ValueOrDefault(req'[r].limit, 10))]_vars

\* C20 (amended): no step of getUserOrders changes a table, and every step
\* is right for the page and the limit that are the integers the query
\* values start with, 1 and 10 standing in for a value that is absent,
\* starts with no integer, or writes 0, when both are positive.
C20_PaginationParsed ==
  [][\A r \in Reqs :
       (req'[r].op = "getUserOrders" /\ Steps(r)) =>
         /\ UNCHANGED store
         /\ (/\ LeadingOrDefault(req'[r].page, 1) > 0
             /\ LeadingOrDefault(req'[r].limit, 10) > 0) =>
              ListStepRight(r, LeadingOrDefault(req'[r].page, 1),
                               LeadingOrDefault(req'[r].limit, 10))]_vars

\* The second of three orders of the caller, listed alone on page 2 of two,
\* the page written in hexadecimal.
C20_Witness ==
  \E r \in Reqs :
    /\ req[r].op = "getUserOrders" /\ pc[r] = "done" /\ resp[r].code = 200
    /\ req[r].page = <<48, 88, 50>> /\ req[r].limit = <<50>>
    /\ Cardinality({o \in orders : o.userId = req[r].userId}) = 3
    /\ Len(resp[r].data[1].orders) = 1
    /\ resp[r].data[1].orders[1].order.createdAt < 3
    /\ resp[r].data[1].pagination.total = 3
    /\ resp[r].data[1].pagination.pages = 2

\* The step commits exactly one new order, of the user of request r, with
\* one order item per line of the cart the request read and no other.
CommitsOneOrder(r) ==
  /\ orders \subseteq orders'
  /\ orderItems \subseteq orderItems'
  /\ Cardinality(orders' \ orders) = 1
  /\ \A o \in orders' \ orders :
       /\ o.userId = req[r].userId
       /\ orderItems' \ orderItems = {it \in orderItems' : it.orderId = o.id}
       /\ Cardinality(orderItems' \ orderItems) = Len(loc[r].cartItems)
       /\ Len(loc[r].cartItems) > 0
       /\ \A it \in orderItems : it.orderId # o.id

\* The 400 answer of request r names a failure that happened: the body was
\* rejected, the cart read was empty, or a line read was inactive or beyond
\* the stock read.
RuleFailure(r) ==
  \/ resp'[r].msg = "validation" /\ req'[r].userId = 0
  \/ resp'[r].msg = "Cart is empty" /\ loc'[r].cartItems = <<>>
  \/ /\ resp'[r].msg = "no longer available"
     /\ \E i \in 1..Len(loc'[r].cartItems) : ~loc'[r].cartItems[i].product.isActive
  \/ /\ resp'[r].msg = "Insufficient stock"
     /\ \E i \in 1..Len(loc'[r].cartItems) :
          loc'[r].cartItems[i].quantity > loc'[r].cartItems[i].product.stock

\* The 500 answer of request r is the catch's: the body had passed the
\* schema, the step is one of the handler's awaited store calls, no result
\* of the call has reached the handler's locals, and every table is as it
\* was before the call.
CaughtFailure(r) ==
  /\ resp'[r] = Error("Failed to create order", 500)
  /\ req'[r].userId # 0
  /\ pc[r] \in {"idle", "co_addr", "co_addrCreate", "co_tx"}
  /\ loc'[r] = loc[r]
  /\ UNCHANGED store

\* C21: a step of a createOrder request answers 201 exactly when it commits
\* one new order with its items; it answers 400 only for a validation or
\* business-rule failure that the request and the rows it read show, and 500
\* only from the catch of a store call that left every table as it was; in
\* both cases the orders and the order items stay as they were.
C21_ResponseMatchesCommit ==
  [][\A r \in Reqs :
       (req'[r].op = "createOrder" /\ Steps(r)) =>
         /\ (resp'[r].code = 201) <=> CommitsOneOrder(r)
         /\ resp'[r].code # 201 => orders' = orders /\ orderItems' = orderItems
         /\ resp'[r].code \in {0, 201, 400, 500}
         /\ resp'[r].code = 400 => RuleFailure(r)
         /\ resp'[r].code = 500 => CaughtFailure(r)]_vars

\* Both requests have been answered: one with 201 and its order in the
\* table, the other with 500 or 400 and no order of its own.
C21_Witness ==
  \E r1, r2 \in Reqs :
    /\ r1 # r2 /\ pc[r1] = "done" /\ pc[r2] = "done"
    /\ IsCreate(r1) /\ resp[r1].code = 201
    /\ \E o \in orders : o.id = req[r1].id /\ o.userId = req[r1].userId
    /\ IsCreate(r2) /\ resp[r2].code = 500
    /\ loc[r2].amounts # NoAmounts
    /\ Cardinality(orders) = Cardinality(InitOrders) + 1

\* C23: of the cancelOrder requests answered for one order, at most one has
\* succeeded, and the stock holds the order's quantities at most once: no
\* product's stock plus its quantities in non-cancelled orders exceeds its
\* initial stock.
C23_CancelAtMostOnce ==
  \A r1, r2 \in Reqs :
    (/\ r1 # r2 /\ IsCancel(r1) /\ IsCancel(r2)
     /\ req[r1].id = req[r2].id
     /\ pc[r1] = "done" /\ pc[r2] = "done") =>
      /\ ~(resp[r1].code = 200 /\ resp[r2].code = 200)
      /\ \A p \in Products : stock[p] + SumQty(LiveItems, p) <= InitStock(p)

\* C24: the step in which createOrder succeeds deletes only cart rows that
\* an order item it inserts stands for, with the row's product and quantity.
C24_DeletedRowsOrdered ==
  [][\A r \in Reqs :
       (IsCreate(r) /\ Steps(r) /\ resp'[r].code = 201) =>
         \A c \in cartItems \ cartItems' :
           \E it \in orderItems' \ orderItems :
             it.productId = c.productId /\ it.quantity = c.quantity]_vars

\* Positions of a request inside protect, and inside a handler behind it.
InProtect(r) == pc[r] \in {"idle", "pr_user", "pr_legacy"}
HandlerPositions ==
  {"go_find", "cc_find", "cc_write", "cu_find", "cu_write", "cd_find", "cd_write"}

\* The header of request r carries a bearer token that verifies for the id
\* of row, a row of the User table or of the legacy table that is not
\* deactivated.
Authenticates(header, row) ==
  /\ TokenOf(header) # <<>>
  /\ TokenOf(header)[1].signed
  /\ row \in FindUser(TokenOf(header)[1].id) \cup FindLegacyUser(TokenOf(header)[1].id)
  /\ ~(row.isActive = <<FALSE>>)

\* C22: a step takes a request out of protect into its handler only when
\* its header carries a bearer token that verifies and resolves to an
\* existing user who is not deactivated, which becomes req.user, and on a
\* category route only when that user's role is ADMIN; a request that ends
\* in the middlewares has written nothing and is answered 401, or 403 when
\* admin refused a user of another role; admin answers 401 when no user is
\* attached; and the category table changes only in steps of category
\* requests whose user is an ADMIN.
C22_ProtectedOnlyForUsers ==
  [][/\ Admin(NoUser) = Error("Not authorized, user not found", 401)
     /\ \A r \in Reqs :
          Steps(r) /\ req'[r].op \in CategoryRoutes \cup {"getOrder"} =>
            /\ (InProtect(r) /\ pc'[r] \in HandlerPositions) =>
                 /\ Authenticates(req'[r].authorization, loc'[r].user)
                 /\ req'[r].userId = loc'[r].user.id
                 /\ req'[r].op \in CategoryRoutes => loc'[r].user.role = "ADMIN"
            /\ (InProtect(r) /\ pc'[r] = "done") =>
                 /\ UNCHANGED store
                 /\ resp'[r].code \in {401, 403}
                 /\ resp'[r].code = 403 =>
                      /\ req'[r].op \in CategoryRoutes
                      /\ \E row \in UserRows \cup FindLegacyUser(loc[r].decoded) :
                           /\ Authenticates(req'[r].authorization, row)
                           /\ row.role # "ADMIN"
            /\ ~InProtect(r) => loc[r].user # NoUser /\ ~Deactivated(loc[r].user)
            /\ categories' # categories =>
                 req[r].op \in CategoryRoutes /\ loc[r].user.role = "ADMIN"]_vars

\* An ADMIN has created a category and a user of role USER has been refused
\* on a category route with 403.
C22_Witness ==
  \E r1, r2 \in Reqs :
    /\ req[r1].op = "createCategory" /\ pc[r1] = "done" /\ resp[r1].code = 201
    /\ loc[r1].user.role = "ADMIN"
    /\ \E c \in categories : c.name = req[r1].name[1] /\ c \notin InitCategories
    /\ req[r2].op = "deleteCategory" /\ pc[r2] = "done"
    /\ resp[r2] = Error("Not authorized as admin", 403)
    /\ categories \ InitCategories # {} /\ InitCategories \subseteq categories

====
